---- MODULE Spec2Model ----
(***************************************************************************)
(* Verification model of the sysrepo request-handling engine:              *)
(*   - Connection Manager: frame extraction from the input buffer,         *)
(*     output buffer flushing, per-session request sequencer               *)
(*     (src/src/connection_manager.c)                                      *)
(*   - Notification Processor and Persistence Manager                      *)
(*     (src/src/notification_processor.c, src/src/persistence_manager.c)   *)
(*   - Data Manager commit, locking and working copies (declared in        *)
(*     src/src/data_manager.h, exercised by src/tests)                     *)
(* Each subsystem has its own next-state relation over the shared state;   *)
(* the variables of the other subsystems stay at their initial value.      *)
(***************************************************************************)
EXTENDS Integers, Sequences, FiniteSets, TLC

(* ------------------------------------------------------------------ *)
(* Bounds and program constants                                        *)
(* ------------------------------------------------------------------ *)

\* size of the message preamble (a uint32 length) in bytes
SR_MSG_PREAM_SIZE == 4

\* largest accepted message size; scaled down from the program's value
SR_MAX_MSG_SIZE == 6

\* number of frames the peer sends on the modelled connection
MaxFrames == 2

\* number of frames the engine sends on the modelled connection
MaxOutFrames == 2

\* client connections, session ids and client requests of the sequencer model
MaxConn == 2
MaxSess == 1
MaxReq == 2

\* requests the Request Processor sends to the client of one session
MaxSrvReq == 2

\* Data Manager: modules, and reads and edits made in one run
MaxModules == 2
MaxDmOps == 2

\* Data Manager: edits made in one run of the merge scenario
MaxMergeOps == 3

\* Notification Processor: destination ids and subscribe calls in one run
MaxDstId == 1
MaxSubscribes == 2

\* restarts of the engine
MaxRestarts == 1

\* Request Processor: keys a list entry can have
MaxKeys == 3

\* threads calling the Persistence Manager, and calls they start in total
MaxPmThreads == 2
MaxPmCalls == 2

\* threads calling the Notification Processor, and calls they start in total
MaxNpThreads == 2
MaxNpCalls == 4

\* size_t arithmetic wraps modulo SIZE_MOD (2^64 in the program; 2^30 here,
\* far above any buffer size of the model)
SIZE_MOD == 2^30

\* a byte whose value is indeterminate: memory of the buffer beyond the
\* bytes received so far
STALE == 0 - 1

(* ------------------------------------------------------------------ *)
(* State                                                               *)
(* ------------------------------------------------------------------ *)
VARIABLES
    \* --- input side of one connection (cm_conn_read_cb) ---
    peer_sent,      \* payloads of the frames the peer has written, in order
    sock_in,        \* bytes written by the peer and not yet received
    in_buff,        \* in_buff.data[0 .. in_buff.pos)
    dispatched,     \* payloads handed to cm_conn_msg_process, in order
    in_conn,        \* "open", "closed" (cm_conn_close ran) or "crashed"
    in_last,        \* buff_pos / buff_size at the end of the last cm_conn_in_buff_process
    \* --- output side of one connection (cm_msg_send_session, cm_conn_write_cb) ---
    out_buff,       \* out_buff.data[0 .. out_buff.pos)
    wire,           \* bytes the kernel accepted from send(), in order
    appended,       \* every byte ever written into out_buff, in order
    write_watcher,  \* TRUE when the write watcher is started
    out_conn,       \* "open" or "closed"
    out_last,       \* what the last flush did
    \* --- sessions and the request sequencer (message level) ---
    cm_conns,         \* connections registered in the Session Manager
    sess_conn,        \* session id -> owning connection (NoConn: no such session)
    rp_req_cnt,       \* cm_session_ctx_t.rp_req_cnt
    rp_resp_expected, \* cm_session_ctx_t.rp_resp_expected
    request_queue,    \* cm_session_ctx_t.request_queue
    next_sid,         \* next session id the Session Manager assigns
    rp_work,          \* requests accepted by rp_msg_process and not answered yet
    rp_stops,         \* session id -> number of rp_session_stop calls made for it
    arrived,          \* session id -> its requests in order of arrival
    responded,        \* session id -> requests in the order their responses were sent
    next_req,         \* next request id
    cm_crashed,       \* the process faulted on freed memory
    cm_ev,            \* the last message handled
    srv_sent,         \* session id -> server-to-client requests written to its connection
    resp_fwd,         \* session id -> client responses handed to rp_msg_process
    \* --- Data Manager ---
    dm_sessions,    \* started sessions
    dm_next_sid,    \* next session id
    disk,           \* module -> content of its data file
    disk_ts,        \* module -> modification timestamp of its data file
    copy,           \* session -> module -> working-copy entry
    oplog,          \* session -> operation log
    locks,          \* module -> session holding its lock (NoSess: free)
    dm_ops,         \* reads and edits made so far
    dm_last,        \* the last Data Manager call: its session, and for commit and
                    \* the lock calls the operation and its result
    \* --- Notification Processor and Persistence Manager ---
    np_subscriptions, \* np_ctx->subscriptions: the transient subscriptions
    np_dst_info,      \* np_ctx->dst_info_btree: address -> subscribed modules
    persist,          \* module -> its persist data file
    np_lock_leaked,   \* np_ctx->lock is held by a call that has returned
    np_halted,        \* the process faulted or is blocked for ever
    np_subscribes,    \* subscribe calls made so far
    np_boot,          \* restarts of the engine so far, and the number of
                      \* transient subscriptions the last np_cleanup freed
    \* --- accepting connections (cm_server_watcher_cb) ---
    cm_mode,        \* cm_ctx->mode
    conn_uid,       \* connection -> uid of the peer that connected (NoUid: none yet)
    acc_watched,    \* connections whose watchers cm_conn_watcher_init has set up
    acc_closed,     \* connections whose descriptor cm_server_watcher_cb closed
    \* --- Request Processor: data tree of one session ---
    lists,          \* list name -> keys of its entries in sibling order
    mv_last,        \* the last edit of a list: what it was, its result, the list before
    node_state,     \* schema node -> dm_node_state_t
    en_last,        \* the last rp_dt_enable_xpath call: its target and result
    rd_last,        \* the last get-item / get-items call: its xpath, result, output
    np_last,        \* the last notify operation: its subscriptions and what was sent
    pm_last,        \* the last feature save or read of a persist file, and its result
    pw,             \* thread -> its Persistence Manager call (threads that made one)
    pm_flock,       \* lock on the persist file: the writer and the readers holding it
    pm_identity,    \* the effective identity of the process
    pm_calls,       \* number of Persistence Manager calls started
    pw_last,        \* the last save that wrote the file: what a sequential run gives
    nc,             \* thread -> its Notification Processor call (threads that made one)
    nc_calls        \* number of Notification Processor calls started

in_vars  == <<peer_sent, sock_in, in_buff, dispatched, in_conn, in_last>>
out_vars == <<out_buff, wire, appended, write_watcher, out_conn, out_last>>
cm_vars == <<cm_conns, sess_conn, rp_req_cnt, rp_resp_expected, request_queue, next_sid,
             rp_work, rp_stops, arrived, responded, next_req, cm_crashed, cm_ev,
             srv_sent, resp_fwd>>
dm_vars == <<dm_sessions, dm_next_sid, disk, disk_ts, copy, oplog, locks, dm_ops, dm_last>>
np_vars == <<np_subscriptions, np_dst_info, persist, np_lock_leaked, np_halted,
             np_subscribes, np_boot>>
acc_vars == <<cm_mode, conn_uid, acc_watched, acc_closed>>
rp_vars == <<lists, mv_last, node_state, en_last, rd_last>>
nt_vars == <<np_last, pm_last>>
pw_vars == <<pw, pm_flock, pm_identity, pm_calls, pw_last>>
nc_vars == <<nc, nc_calls>>
vars == <<in_vars, out_vars, cm_vars, dm_vars, np_vars, acc_vars, rp_vars, nt_vars, pw_vars,
          nc_vars>>

(* ------------------------------------------------------------------ *)
(* Sequence helpers                                                    *)
(* ------------------------------------------------------------------ *)
IsPrefix(s, t) == Len(s) <= Len(t) /\ SubSeq(t, 1, Len(s)) = s

RECURSIVE Flatten(_)
Flatten(ss) == IF ss = <<>> THEN <<>> ELSE Head(ss) \o Flatten(Tail(ss))

(* ------------------------------------------------------------------ *)
(* Framing                                                             *)
(* ------------------------------------------------------------------ *)

\* sr_uint32_to_buff: 32-bit length in network byte order
sr_uint32_to_buff(n) ==
    << (n \div 16777216) % 256, (n \div 65536) % 256, (n \div 256) % 256, n % 256 >>

\* sr_buff_to_uint32: the inverse, reading 4 bytes
sr_buff_to_uint32(b) ==
    b[1] * 16777216 + b[2] * 65536 + b[3] * 256 + b[4]

\* the payload bytes of the k-th frame of a stream, of length len
Payload(k, len) == [j \in 1..len |-> 16 * k + j]

\* a frame on the wire: preamble + payload
FrameBytes(len, payload) == sr_uint32_to_buff(len) \o payload

\* byte i (0-based) of the buffer memory: received data below buff_size,
\* indeterminate memory above it
BuffByte(data, i) == IF i < Len(data) THEN data[i + 1] ELSE STALE

\* The loop of cm_conn_in_buff_process on a buffer holding `data`
\* (buff_size = Len(data)), starting at buff_pos = pos with the payloads in
\* acc already dispatched.  failAt = n > 0 makes the n-th call of
\* cm_conn_msg_process of this run return an error.
\* Result: out = dispatched payloads, pos = buff_pos at loop exit, rc, and
\* ret = TRUE when the function returned from inside the loop.
RECURSIVE InBuffLoop(_, _, _, _)
InBuffLoop(data, pos, acc, failAt) ==
    LET buff_size == Len(data)
        remaining == (buff_size - pos) % SIZE_MOD
    IN  IF ~(remaining > SR_MSG_PREAM_SIZE)
        THEN [out |-> acc, pos |-> pos, rc |-> "OK", ret |-> FALSE]
        ELSE
          LET msg_size == sr_buff_to_uint32(SubSeq(data, pos + 1, pos + SR_MSG_PREAM_SIZE))
          IN  IF (msg_size <= 0) \/ (msg_size > SR_MAX_MSG_SIZE)
              THEN [out |-> acc, pos |-> pos, rc |-> "MALFORMED_MSG", ret |-> TRUE]
              ELSE IF remaining >= msg_size
              THEN
                LET payload == [j \in 1..msg_size |->
                                   BuffByte(data, pos + SR_MSG_PREAM_SIZE + j - 1)]
                    newpos  == pos + SR_MSG_PREAM_SIZE + msg_size
                    newacc  == Append(acc, payload)
                IN  IF Len(newacc) = failAt
                    THEN [out |-> newacc, pos |-> newpos, rc |-> "ERR", ret |-> FALSE]
                    ELSE IF newpos > buff_size
                    THEN \* buff_pos passed buff_size: what follows works on
                         \* memory that was never received (see the read callback)
                         [out |-> newacc, pos |-> newpos, rc |-> "OK", ret |-> FALSE]
                    ELSE InBuffLoop(data, newpos, newacc, failAt)
              ELSE [out |-> acc, pos |-> pos, rc |-> "OK", ret |-> FALSE]

\* cm_conn_in_buff_process: result of the loop plus the compaction of the buffer
cm_conn_in_buff_process(data, failAt) ==
    IF Len(data) <= SR_MSG_PREAM_SIZE
    THEN [out |-> <<>>, pos |-> 0, rc |-> "OK", buff |-> data, overrun |-> FALSE]
    ELSE
      LET r == InBuffLoop(data, 0, <<>>, failAt)
          buff_size == Len(data)
          left == (buff_size - r.pos) % SIZE_MOD
      IN  IF r.ret
          THEN [out |-> r.out, pos |-> r.pos, rc |-> r.rc, buff |-> data, overrun |-> FALSE]
          ELSE IF r.pos > buff_size
          THEN [out |-> r.out, pos |-> r.pos, rc |-> r.rc, buff |-> data, overrun |-> TRUE]
          ELSE IF (0 # r.pos) /\ (left > 0)
          THEN [out |-> r.out, pos |-> r.pos, rc |-> r.rc,
                buff |-> SubSeq(data, r.pos + 1, buff_size), overrun |-> FALSE]
          ELSE [out |-> r.out, pos |-> r.pos, rc |-> r.rc, buff |-> <<>>, overrun |-> FALSE]

\* The peer writes one more frame with length prefix len.
PeerSend(len) ==
    /\ in_conn = "open"
    /\ Len(peer_sent) < MaxFrames
    /\ LET p == Payload(Len(peer_sent) + 1, len)
       IN  /\ peer_sent' = Append(peer_sent, p)
           /\ sock_in' = sock_in \o FrameBytes(len, p)
    /\ UNCHANGED <<in_buff, dispatched, in_conn, in_last, out_vars, cm_vars, dm_vars, np_vars, acc_vars, rp_vars, nt_vars, pw_vars, nc_vars>>

\* cm_conn_read_cb: the recv loop takes the next n bytes of the socket and
\* ends with EAGAIN, with 0 (peer closed) or with an error; then the input
\* buffer is processed and the connection closed if requested.
\* after = what the build does once buff_pos has passed buff_size.
cm_conn_read_cb(n, end, failAt, after) ==
    /\ in_conn = "open"
    /\ n \in 0..Len(sock_in)
    /\ (end = "EAGAIN") => n > 0
    /\ LET data == in_buff \o SubSeq(sock_in, 1, n)
           res  == cm_conn_in_buff_process(data, failAt)
           close_requested == (end # "EAGAIN") \/ (res.rc # "OK")
       IN  /\ sock_in' = SubSeq(sock_in, n + 1, Len(sock_in))
           /\ dispatched' = dispatched \o res.out
           /\ in_last' = [pos |-> res.pos, size |-> Len(data), rc |-> res.rc]
           /\ IF res.overrun
              THEN \* rc # OK: the loop breaks and memmove copies the wrapped
                   \* (buff_size - buff_pos) bytes; rc = OK: the loop goes on
                   \* parsing memory beyond the received data until it finds a
                   \* bad length (the connection is closed) or faults
                   /\ (res.rc # "OK") => (after = "crashed")
                   /\ in_conn' = after
                   /\ in_buff' = <<>>
              ELSE /\ after = "closed"
                   /\ in_buff' = res.buff
                   /\ in_conn' = IF close_requested THEN "closed" ELSE "open"
    /\ UNCHANGED <<peer_sent, out_vars, cm_vars, dm_vars, np_vars, acc_vars, rp_vars, nt_vars, pw_vars, nc_vars>>

(* ------------------------------------------------------------------ *)
(* Output buffer                                                       *)
(* ------------------------------------------------------------------ *)

\* cm_conn_out_buff_flush on a buffer holding `data`: the send loop writes w
\* bytes in total and ends with "DONE" (everything written), "EAGAIN" or "ERR".
\* Result: the buffer left, whether the write watcher gets started and
\* whether close is requested.
cm_conn_out_buff_flush(data, w, end) ==
    LET buff_size == Len(data)
        buff_pos  == w
    IN  [buff  |-> IF (0 # buff_pos) /\ ((buff_size - buff_pos) > 0)
                   THEN SubSeq(data, buff_pos + 1, buff_size)
                   ELSE <<>>,
         sent  |-> SubSeq(data, 1, buff_pos),
         start |-> (end = "EAGAIN"),
         close |-> (end = "ERR")]

\* the ways the send loop of a flush can end on a buffer of buff_size bytes
FlushEnds(buff_size, w, end) ==
    /\ w \in 0..buff_size
    /\ end \in {"DONE", "EAGAIN", "ERR"}
    /\ (end = "DONE") <=> (w = buff_size /\ buff_size > 0)

\* cm_msg_send_session: append the frame to the output buffer and flush
cm_msg_send_session(len, w, end) ==
    /\ out_conn = "open"
    /\ Len(appended) < MaxOutFrames * (SR_MSG_PREAM_SIZE + 1)
    /\ IF (len <= 0) \/ (len > SR_MAX_MSG_SIZE)
       THEN /\ w = 0 /\ end = "ERR"
            /\ out_last' = [op |-> "send", rc |-> "INTERNAL", end |-> "NONE", before |-> out_buff]
            /\ UNCHANGED <<out_buff, wire, appended, write_watcher, out_conn>>
       ELSE LET frame == FrameBytes(len, Payload(1 + Len(appended), len))
                data  == out_buff \o frame
                f     == cm_conn_out_buff_flush(data, w, end)
            IN  /\ FlushEnds(Len(data), w, end)
                /\ appended' = appended \o frame
                /\ wire' = wire \o f.sent
                /\ out_buff' = f.buff
                /\ out_last' = [op |-> "send", rc |-> "OK", end |-> end, before |-> data]
                /\ IF f.close
                   THEN /\ out_conn' = "closed"
                        /\ write_watcher' = FALSE
                   ELSE /\ out_conn' = "open"
                        /\ write_watcher' = (write_watcher \/ f.start)
    /\ UNCHANGED <<in_vars, cm_vars, dm_vars, np_vars, acc_vars, rp_vars, nt_vars, pw_vars, nc_vars>>

\* cm_conn_write_cb: stop the watcher, flush, close if requested
cm_conn_write_cb(w, end) ==
    /\ out_conn = "open"
    /\ write_watcher
    /\ LET f == cm_conn_out_buff_flush(out_buff, w, end)
       IN  /\ w \in 0..Len(out_buff)
           /\ end \in {"DONE", "EAGAIN", "ERR"}
           \* send() of 0 bytes returns 0 and leaves errno as it was
           /\ (end = "DONE") <=> (w = Len(out_buff) /\ Len(out_buff) > 0)
           /\ wire' = wire \o f.sent
           /\ out_buff' = f.buff
           /\ out_last' = [op |-> "write_cb", rc |-> "OK", end |-> end, before |-> out_buff]
           /\ IF f.close
              THEN /\ out_conn' = "closed"
                   /\ write_watcher' = FALSE
              ELSE /\ out_conn' = "open"
                   /\ write_watcher' = f.start
    /\ UNCHANGED <<appended, in_vars, cm_vars, dm_vars, np_vars, acc_vars, rp_vars, nt_vars, pw_vars, nc_vars>>

(* ------------------------------------------------------------------ *)
(* Sessions and the request sequencer                                  *)
(* ------------------------------------------------------------------ *)
Conn   == 1..MaxConn
SessId == 1..MaxSess
NoConn == 0
NoEvent == [op |-> "none", conn |-> 0, sess |-> 0, req |-> 0, rc |-> "OK"]

\* ways a call of cm_msg_send_session on a message can end:
\*   "OK"      frame appended to the output buffer, flush done or partly done
\*   "FAIL"    message size rejected or buffer not expanded: rc # OK, nothing appended
\*   "DROPPED" frame appended, first send returned EAGAIN, flush emptied the buffer
\*   "CLOSED"  frame appended, send failed, cm_conn_close called from the send path
SendKinds == {"OK", "FAIL", "DROPPED", "CLOSED"}

\* the sequencer state as one value, so that handlers compose
CmState ==
    [conns |-> cm_conns, sconn |-> sess_conn, cnt |-> rp_req_cnt,
     exp |-> rp_resp_expected, q |-> request_queue, work |-> rp_work,
     stops |-> rp_stops, resp |-> responded, crashed |-> cm_crashed,
     sent |-> srv_sent, fwd |-> resp_fwd]

SetCm(st) ==
    /\ cm_conns' = st.conns
    /\ sess_conn' = st.sconn
    /\ rp_req_cnt' = st.cnt
    /\ rp_resp_expected' = st.exp
    /\ request_queue' = st.q
    /\ rp_work' = st.work
    /\ rp_stops' = st.stops
    /\ responded' = st.resp
    /\ cm_crashed' = st.crashed
    /\ srv_sent' = st.sent
    /\ resp_fwd' = st.fwd

\* sm_session_drop with cm_session_data_cleanup: the session leaves the
\* registry, its counters and its queue are freed
sm_session_drop(st, s) ==
    [st EXCEPT !.sconn[s] = NoConn, !.cnt[s] = 0, !.exp[s] = 0, !.q[s] = <<>>,
               !.sent[s] = 0, !.fwd[s] = 0]

\* cm_conn_close: stop the watchers, close the fd, stop and drop every
\* session of the connection, remove the connection
cm_conn_close(st, c) ==
    LET owned == {s \in SessId : st.sconn[s] = c}
    IN  [st EXCEPT
           !.conns = st.conns \ {c},
           !.sconn = [s \in SessId |-> IF s \in owned THEN NoConn ELSE st.sconn[s]],
           !.cnt   = [s \in SessId |-> IF s \in owned THEN 0 ELSE st.cnt[s]],
           !.exp   = [s \in SessId |-> IF s \in owned THEN 0 ELSE st.exp[s]],
           !.q     = [s \in SessId |-> IF s \in owned THEN <<>> ELSE st.q[s]],
           !.sent  = [s \in SessId |-> IF s \in owned THEN 0 ELSE st.sent[s]],
           !.fwd   = [s \in SessId |-> IF s \in owned THEN 0 ELSE st.fwd[s]],
           !.stops = [s \in SessId |-> IF s \in owned THEN st.stops[s] + 1 ELSE st.stops[s]]]

\* cm_msg_send_session for the response to request r of session s
SessionSend(st, s, r, sendres) ==
    CASE sendres = "OK"     -> [st EXCEPT !.resp[s] = Append(@, r)]
      [] sendres = "CLOSED" -> cm_conn_close(st, st.sconn[s])
      [] OTHER              -> st

SendRc(sendres) == IF sendres = "FAIL" THEN "ERR" ELSE "OK"

\* the session's request queue (sr_cbuff): a FIFO
sr_cbuff_enqueue(q, r) == Append(q, r)
sr_cbuff_dequeue(q) == Tail(q)

\* cm_conn_msg_process: the session named by the message is registered and
\* belongs to the connection the message arrived on
SessionMatches_mut(st, s, c) == st.sconn[s] # NoConn
SessionMatches(st, s, c) == st.sconn[s] # NoConn /\ st.sconn[s] = c

\* cm_msg_send: sm_session_find_id finds the session named by the message
SessionFound_mut(st, s) == TRUE
SessionFound(st, s) == st.sconn[s] # NoConn

\* the test of cm_req_process that decides between queueing and forwarding
MustQueue_mut(cnt) == FALSE
MustQueue(cnt) == cnt > 0

\* cm_req_process, default branch: request r of session s.
\* rpres is the result of rp_msg_process when the request is forwarded.
cm_req_process(st, s, r, rpres) ==
    IF MustQueue(st.cnt[s])
    THEN [st |-> [st EXCEPT !.q[s] = sr_cbuff_enqueue(@, r)], rc |-> "OK"]
    ELSE IF rpres = "OK"
    THEN [st |-> [st EXCEPT !.cnt[s] = @ + 1,
                            !.work = @ \cup {[sess |-> s, req |-> r]}],
          rc |-> "OK"]
    ELSE [st |-> st, rc |-> "ERR"]

\* cm_session_stop_req_process validates the session id of the request body:
\* a session stops only itself
StopAllowed_mut(s, body) == TRUE
StopAllowed(s, body) == s = body

\* cm_session_stop_req_process: request r on session s naming session `body`.
\* `result` is the result code put into the response.
\* stopres is the result of rp_session_stop; ub is what the build does when
\* sm_session_drop is reached after the send path has freed the session.
cm_session_stop_req_process(st, s, r, body, stopres, sendres, ub) ==
    LET rc1  == IF ~StopAllowed(s, body) THEN "UNSUPPORTED" ELSE stopres
        st1  == IF StopAllowed(s, body) THEN [st EXCEPT !.stops[s] = @ + 1] ELSE st
        drop == (rc1 = "OK")
        st2  == SessionSend(st1, s, r, sendres)
        rc2  == SendRc(sendres)
        st3  == IF drop /\ rc2 = "OK"
                THEN IF sendres = "CLOSED"
                     THEN [st2 EXCEPT !.crashed = (ub = "crash")]
                     ELSE sm_session_drop(st2, s)
                ELSE st2
    IN  [st |-> st3, rc |-> rc2, result |-> rc1]

\* cm_msg_send for the response to request r of session s, called by the
\* Request Processor.  rpres is the result of rp_msg_process for a request
\* taken from the queue; ub is what the build does when the session's
\* counters are read after the send path has freed the session.
cm_msg_send(st, s, r, sendres, rpres, ub) ==
    LET st0 == [st EXCEPT !.work = @ \ {[sess |-> s, req |-> r]}]
    IN  IF ~SessionFound(st0, s)
        THEN st0
        ELSE
          LET st1 == [st0 EXCEPT !.cnt[s] = IF @ > 0 THEN @ - 1 ELSE @]
              st2 == SessionSend(st1, s, r, sendres)
          IN  IF sendres = "FAIL" THEN st2
              ELSE IF sendres = "CLOSED" THEN [st2 EXCEPT !.crashed = (ub = "crash")]
              ELSE IF st2.cnt[s] = 0 /\ st2.q[s] # <<>>
              THEN IF rpres = "OK"
                   THEN [st2 EXCEPT !.q[s] = sr_cbuff_dequeue(@), !.cnt[s] = @ + 1,
                                    !.work = @ \cup {[sess |-> s, req |-> Head(st2.q[s])]}]
                   ELSE [st2 EXCEPT !.q[s] = sr_cbuff_dequeue(@)]
              ELSE st2

\* what cm_conn_read_cb does after the message handler returned rc:
\* close the connection on an error; when the send path has already closed
\* (and freed) the connection the callback works on freed memory
AfterHandler(st, c, rc, sendres, ub) ==
    IF sendres = "CLOSED"
    THEN [st EXCEPT !.crashed = (st.crashed \/ ub = "crash")]
    ELSE IF rc # "OK" THEN cm_conn_close(st, c)
    ELSE st

\* cm_server_watcher_cb: a new client connection is accepted; accept()
\* returns the lowest descriptor that is not in use
Accept(c) ==
    /\ ~cm_crashed
    /\ c \notin cm_conns
    /\ \A d \in Conn : (d < c) => (d \in cm_conns)
    /\ cm_conns' = cm_conns \cup {c}
    /\ cm_ev' = NoEvent
    /\ UNCHANGED <<sess_conn, rp_req_cnt, rp_resp_expected, request_queue, next_sid,
                   rp_work, rp_stops, arrived, responded, next_req, cm_crashed,
                   srv_sent, resp_fwd>>
    /\ UNCHANGED <<in_vars, out_vars, dm_vars, np_vars, acc_vars, rp_vars, nt_vars, pw_vars, nc_vars>>

\* cm_conn_read_cb when the peer has closed: recv returns 0
PeerClose(c) ==
    /\ ~cm_crashed
    /\ c \in cm_conns
    /\ SetCm(cm_conn_close(CmState, c))
    /\ cm_ev' = NoEvent
    /\ UNCHANGED <<next_sid, arrived, next_req>>
    /\ UNCHANGED <<in_vars, out_vars, dm_vars, np_vars, acc_vars, rp_vars, nt_vars, pw_vars, nc_vars>>

\* a session_start request arrives on connection c
\* (cm_conn_msg_process, cm_req_process, cm_session_start_req_process)
ReqSessionStart(c, startres, sendres, ub) ==
    /\ ~cm_crashed
    /\ c \in cm_conns
    /\ next_sid <= MaxSess
    /\ LET s  == next_sid
           st == CmState
       IN  CASE startres = "SM_ERR" ->
                  \* sm_session_create failed: rc returned, connection closed
                  /\ sendres = "OK" /\ ub = "none"
                  /\ SetCm(cm_conn_close(st, c))
                  /\ next_sid' = next_sid
                  /\ cm_ev' = NoEvent
             [] startres = "RP_ERR" ->
                  \* rp_session_start failed: the session is dropped and the
                  \* response is then sent through the dropped session
                  /\ sendres = "OK"
                  /\ SetCm([st EXCEPT !.crashed = (ub = "crash")])
                  /\ next_sid' = next_sid + 1
                  /\ cm_ev' = NoEvent
             [] OTHER ->
                  LET st1 == [st EXCEPT !.sconn[s] = c]
                      st2 == IF sendres = "CLOSED" THEN cm_conn_close(st1, c) ELSE st1
                  IN  /\ (sendres # "CLOSED") => (ub = "none")
                      /\ SetCm(AfterHandler(st2, c, SendRc(sendres), sendres, ub))
                      /\ next_sid' = next_sid + 1
                      /\ cm_ev' = NoEvent
    /\ UNCHANGED <<arrived, next_req>>
    /\ UNCHANGED <<in_vars, out_vars, dm_vars, np_vars, acc_vars, rp_vars, nt_vars, pw_vars, nc_vars>>

\* a request other than session_start / session_stop with session_id s
\* arrives on connection c (cm_conn_msg_process, cm_req_process)
ReqArrive(c, s, rpres) ==
    /\ ~cm_crashed
    /\ c \in cm_conns
    /\ next_req <= MaxReq
    /\ LET r  == next_req
           st == CmState
       IN  IF ~SessionMatches(st, s, c)
           THEN \* session not found, or owned by another connection
                /\ rpres = "OK"
                /\ SetCm(cm_conn_close(st, c))
                /\ arrived' = arrived
                /\ cm_ev' = [op |-> "req", conn |-> c, sess |-> s, req |-> r, rc |-> "INVAL_ARG"]
           ELSE LET res == cm_req_process(st, s, r, rpres)
                IN  /\ SetCm(AfterHandler(res.st, c, res.rc, "OK", "none"))
                    /\ arrived' = [arrived EXCEPT ![s] = Append(@, r)]
                    /\ cm_ev' = [op |-> "req", conn |-> c, sess |-> s, req |-> r, rc |-> res.rc]
    /\ next_req' = next_req + 1
    /\ UNCHANGED next_sid
    /\ UNCHANGED <<in_vars, out_vars, dm_vars, np_vars, acc_vars, rp_vars, nt_vars, pw_vars, nc_vars>>

\* a session_stop request with session_id s, naming session `body`,
\* arrives on connection c; the inputs a path does not read take one value
ReqSessionStop(c, s, body, stopres, sendres, ub) ==
    /\ ~cm_crashed
    /\ c \in cm_conns
    /\ next_req <= MaxReq
    /\ (sendres # "CLOSED") => (ub = "none")
    /\ LET r  == next_req
           st == CmState
       IN  IF ~SessionMatches(st, s, c)
           THEN /\ body = s /\ stopres = "OK" /\ sendres = "OK"
                /\ SetCm(cm_conn_close(st, c))
                /\ arrived' = arrived
                /\ cm_ev' = [op |-> "stop", conn |-> c, sess |-> s, req |-> r, rc |-> "INVAL_ARG"]
           ELSE LET res == cm_session_stop_req_process(st, s, r, body, stopres, sendres, ub)
                IN  /\ (~StopAllowed(s, body)) => (stopres = "OK")
                    /\ SetCm(AfterHandler(res.st, c, res.rc, sendres, ub))
                    /\ arrived' = [arrived EXCEPT ![s] = Append(@, r)]
                    /\ cm_ev' = [op |-> "stop", conn |-> c, sess |-> s, req |-> r, rc |-> res.rc]
    /\ next_req' = next_req + 1
    /\ UNCHANGED next_sid
    /\ UNCHANGED <<in_vars, out_vars, dm_vars, np_vars, acc_vars, rp_vars, nt_vars, pw_vars, nc_vars>>

\* the Request Processor finishes request r of session s and hands the
\* response to cm_msg_send
RpRespond(s, r, sendres, rpres, ub) ==
    /\ ~cm_crashed
    /\ [sess |-> s, req |-> r] \in rp_work
    /\ (sendres # "CLOSED") => (ub = "none")
    /\ SetCm(cm_msg_send(CmState, s, r, sendres, rpres, ub))
    /\ cm_ev' = [op |-> "rpresp", conn |-> sess_conn[s], sess |-> s, req |-> r,
                 rc |-> IF SessionFound(CmState, s) THEN SendRc(sendres) ELSE "NOT_FOUND"]
    /\ UNCHANGED <<next_sid, arrived, next_req>>
    /\ UNCHANGED <<in_vars, out_vars, dm_vars, np_vars, acc_vars, rp_vars, nt_vars, pw_vars, nc_vars>>

\* the type sm_connection_start is given for every accepted connection
ConnType(c) == "CM_AF_UNIX_CLIENT"

\* cm_resp_process: a response with session_id s received on connection c;
\* rpres is the result of rp_msg_process when the response is forwarded
cm_resp_process(st, c, s, rpres) ==
    IF ConnType(c) # "CM_AF_UNIX_SERVER"
    THEN [st |-> st, rc |-> "INVAL_ARG"]
    ELSE IF st.exp[s] > 0
    THEN [st |-> [st EXCEPT !.fwd[s] = @ + 1], rc |-> rpres]
    ELSE [st |-> st, rc |-> "INVAL_ARG"]

\* a response message with session_id s arrives on connection c
\* (cm_conn_msg_process, cm_resp_process)
RespArrive(c, s, rpres) ==
    /\ ~cm_crashed
    /\ c \in cm_conns
    /\ LET st == CmState
       IN  IF ~SessionMatches(st, s, c)
           THEN /\ rpres = "OK"
                /\ SetCm(cm_conn_close(st, c))
                /\ cm_ev' = [op |-> "resp", conn |-> c, sess |-> s, req |-> 0, rc |-> "INVAL_ARG"]
           ELSE LET res == cm_resp_process(st, c, s, rpres)
                IN  /\ (res.rc = "INVAL_ARG") => (rpres = "OK")
                    /\ SetCm(AfterHandler(res.st, c, res.rc, "OK", "none"))
                    /\ cm_ev' = [op |-> "resp", conn |-> c, sess |-> s, req |-> 0, rc |-> res.rc]
    /\ UNCHANGED <<next_sid, arrived, next_req>>
    /\ UNCHANGED <<in_vars, out_vars, dm_vars, np_vars, acc_vars, rp_vars, nt_vars, pw_vars, nc_vars>>

\* cm_msg_send for a request the Request Processor sends to the client of
\* session s (msg->type is REQUEST)
cm_msg_send_request(st, s, sendres, rpres, ub) ==
    IF ~SessionFound(st, s)
    THEN st
    ELSE
      LET st1 == [st EXCEPT !.exp[s] = @ + 1]
          st2 == CASE sendres = "OK"     -> [st1 EXCEPT !.sent[s] = @ + 1]
                   [] sendres = "CLOSED" -> cm_conn_close(st1, st1.sconn[s])
                   [] OTHER              -> st1
      IN  IF sendres = "FAIL" THEN st2
          ELSE IF sendres = "CLOSED" THEN [st2 EXCEPT !.crashed = (ub = "crash")]
          ELSE IF st2.cnt[s] = 0 /\ st2.q[s] # <<>>
          THEN IF rpres = "OK"
               THEN [st2 EXCEPT !.q[s] = sr_cbuff_dequeue(@), !.cnt[s] = @ + 1,
                                !.work = @ \cup {[sess |-> s, req |-> Head(st2.q[s])]}]
               ELSE [st2 EXCEPT !.q[s] = sr_cbuff_dequeue(@)]
          ELSE st2

\* the Request Processor sends a request to the client of session s
RpSendRequest(s, sendres, rpres, ub) ==
    /\ ~cm_crashed
    /\ rp_resp_expected[s] < MaxSrvReq
    /\ (sendres # "CLOSED") => (ub = "none")
    /\ (~(rp_req_cnt[s] = 0 /\ request_queue[s] # <<>>)) => (rpres = "OK")
    /\ SetCm(cm_msg_send_request(CmState, s, sendres, rpres, ub))
    /\ cm_ev' = [op |-> "srvreq", conn |-> sess_conn[s], sess |-> s, req |-> 0, rc |-> SendRc(sendres)]
    /\ UNCHANGED <<next_sid, arrived, next_req>>
    /\ UNCHANGED <<in_vars, out_vars, dm_vars, np_vars, acc_vars, rp_vars, nt_vars, pw_vars, nc_vars>>

(* ------------------------------------------------------------------ *)
(* Data Manager: working copies, operation log, commit, locks          *)
(* ------------------------------------------------------------------ *)
\* the two sessions of the tests (sessionA, sessionB)
DmSess  == {1, 2}
Modules == 1..MaxModules
NoSess  == 0

\* leaves of the container of the test schema: "latitude" is mandatory, so
\* a tree that has "name" is valid only when it has "latitude" too
Items == {"name", "latitude"}
Valid(tree) == ("name" \in tree) => ("latitude" \in tree)

\* content of every data file when the engine starts
InitialTree == {"latitude"}

NoCopy == [loaded |-> FALSE, tree |-> {}, ts |-> 0, modified |-> FALSE]
NoDmEvent == [op |-> "none", sess |-> 0, mod |-> 0, rc |-> "OK", phase |-> 0, nmods |-> 0, at |-> 0]

\* the edits of the model: set of one leaf, default or strict, and delete
Edits ==
    [op : {"set"}, mod : Modules, item : Items, strict : BOOLEAN]
      \cup [op : {"delete"}, mod : Modules, item : Items, strict : {FALSE}]

\* one edit applied to a tree (XPath Edit Engine, edit-option flags)
ApplyOp(tree, e) ==
    IF e.op = "set"
    THEN IF e.strict /\ e.item \in tree
         THEN [tree |-> tree, rc |-> "DATA_EXISTS"]
         ELSE [tree |-> tree \cup {e.item}, rc |-> "OK"]
    ELSE IF e.strict /\ e.item \notin tree
         THEN [tree |-> tree, rc |-> "DATA_MISSING"]
         ELSE [tree |-> tree \ {e.item}, rc |-> "OK"]

\* the operations of a log that address module m, in log order
OpsOf(log, m) == SelectSeq(log, LAMBDA e : e.mod = m)

\* replay of operations on a tree; stops at the first operation that fails
RECURSIVE Replay(_, _)
Replay(tree, ops) ==
    IF ops = <<>> THEN [tree |-> tree, rc |-> "OK"]
    ELSE LET r == ApplyOp(tree, Head(ops))
         IN  IF r.rc # "OK" THEN [tree |-> tree, rc |-> r.rc]
             ELSE Replay(r.tree, Tail(ops))

\* dm_get_data_info: the session's working copy of m, loaded from the data
\* file with its timestamp on first access
dm_get_data_info(cps, s, m) ==
    IF cps[s][m].loaded THEN cps
    ELSE [cps EXCEPT ![s][m] = [loaded |-> TRUE, tree |-> disk[m],
                                ts |-> disk_ts[m], modified |-> FALSE]]

\* what a read of module m in session s returns
ReadView(s, m) == IF copy[s][m].loaded THEN copy[s][m].tree ELSE disk[m]

dm_session_start(s) ==
    /\ s = dm_next_sid
    /\ s \in DmSess
    /\ dm_sessions' = dm_sessions \cup {s}
    /\ dm_next_sid' = dm_next_sid + 1
    /\ dm_last' = [NoDmEvent EXCEPT !.op = "call", !.sess = s]
    /\ UNCHANGED <<disk, disk_ts, copy, oplog, locks, dm_ops>>
    /\ UNCHANGED <<in_vars, out_vars, cm_vars, np_vars, acc_vars, rp_vars, nt_vars, pw_vars, nc_vars>>

\* dm_session_stop: working copies and log are freed, the session's locks
\* are released
dm_session_stop(s) ==
    /\ s \in dm_sessions
    /\ dm_sessions' = dm_sessions \ {s}
    /\ copy' = [copy EXCEPT ![s] = [m \in Modules |-> NoCopy]]
    /\ oplog' = [oplog EXCEPT ![s] = <<>>]
    /\ locks' = [m \in Modules |-> IF locks[m] = s THEN NoSess ELSE locks[m]]
    /\ dm_last' = [NoDmEvent EXCEPT !.op = "call", !.sess = s]
    /\ UNCHANGED <<dm_next_sid, disk, disk_ts, dm_ops>>
    /\ UNCHANGED <<in_vars, out_vars, cm_vars, np_vars, acc_vars, rp_vars, nt_vars, pw_vars, nc_vars>>

\* get_value: a read of module m in session s
GetItem(s, m) ==
    /\ s \in dm_sessions
    /\ dm_ops < MaxDmOps
    /\ dm_ops' = dm_ops + 1
    /\ copy' = dm_get_data_info(copy, s, m)
    /\ dm_last' = [NoDmEvent EXCEPT !.op = "call", !.sess = s]
    /\ UNCHANGED <<dm_sessions, dm_next_sid, disk, disk_ts, oplog, locks>>
    /\ UNCHANGED <<in_vars, out_vars, cm_vars, np_vars, acc_vars, rp_vars, nt_vars, pw_vars, nc_vars>>

\* a module name that no installed schema has
UnknownModule == 0
\* the first path element of a read: a leaf of the schema or a name that
\* the schema does not have
PathElems == Items \cup {"unknown"}
NoRead == [api |-> "none", sess |-> 0, mod |-> 0, elem |-> "name", rc |-> "OK",
           value |-> FALSE, view |-> {}]

\* dm_get_datatree: unknown schema, empty data tree, or the tree
dm_get_datatree(cps, s, m) ==
    IF m \notin Modules THEN "UNKNOWN_MODEL"
    ELSE IF dm_get_data_info(cps, s, m)[s][m].tree = {} THEN "NOT_FOUND"
    ELSE "OK"

\* rp_dt_get_value / rp_dt_get_values on a data tree: the nodes the path
\* matches, NOT_FOUND when there are none
rp_dt_get_value(tree, elem) == IF elem \in tree THEN "OK" ELSE "NOT_FOUND"

\* rp_dt_validate_node_xpath of a path in a known module
ValidateElem(elem) == IF elem \in Items THEN "OK" ELSE "BAD_ELEMENT"

\* rp_dt_get_value_wrapper / rp_dt_get_values_wrapper: the result code
rp_dt_get_value_wrapper(cps, s, m, elem) ==
    LET drc == dm_get_datatree(cps, s, m)
    IN  IF drc # "OK" THEN drc
        ELSE LET grc == rp_dt_get_value(dm_get_data_info(cps, s, m)[s][m].tree, elem)
             IN  IF grc = "NOT_FOUND"
                 THEN (IF ValidateElem(elem) = "OK" THEN "NOT_FOUND" ELSE ValidateElem(elem))
                 ELSE grc

\* sr_get_item / sr_get_items of /m:elem in session s
GetItemXpath(api, s, m, elem) ==
    /\ s \in dm_sessions
    /\ dm_ops < MaxDmOps
    /\ dm_ops' = dm_ops + 1
    /\ copy' = IF m \in Modules THEN dm_get_data_info(copy, s, m) ELSE copy
    /\ LET rc == rp_dt_get_value_wrapper(copy, s, m, elem)
       IN  rd_last' = [api |-> api, sess |-> s, mod |-> m, elem |-> elem, rc |-> rc,
                       value |-> (rc = "OK"),
                       view |-> IF m \in Modules THEN ReadView(s, m) ELSE {}]
    /\ dm_last' = [NoDmEvent EXCEPT !.op = "call", !.sess = s]
    /\ UNCHANGED <<dm_sessions, dm_next_sid, disk, disk_ts, oplog, locks>>
    /\ UNCHANGED <<lists, mv_last, node_state, en_last>>
    /\ UNCHANGED <<in_vars, out_vars, cm_vars, np_vars, acc_vars, nt_vars, pw_vars, nc_vars>>

\* set_item / delete_item followed by dm_add_operation on success
EditItemWithin(s, e, budget) ==
    /\ s \in dm_sessions
    /\ dm_ops < budget
    /\ LET cps == dm_get_data_info(copy, s, e.mod)
           r   == ApplyOp(cps[s][e.mod].tree, e)
       IN  /\ IF r.rc = "OK"
              THEN /\ copy' = [cps EXCEPT ![s][e.mod].tree = r.tree,
                                          ![s][e.mod].modified = TRUE]
                   /\ oplog' = [oplog EXCEPT ![s] = Append(@, e)]
              ELSE /\ copy' = cps
                   /\ oplog' = oplog
           /\ dm_last' = [NoDmEvent EXCEPT !.op = "call", !.sess = s]
    /\ dm_ops' = dm_ops + 1
    /\ UNCHANGED <<dm_sessions, dm_next_sid, disk, disk_ts, locks>>
    /\ UNCHANGED <<in_vars, out_vars, cm_vars, np_vars, acc_vars, rp_vars, nt_vars, pw_vars, nc_vars>>

EditItem(s, e) == EditItemWithin(s, e, MaxDmOps)

\* dm_discard_changes: working copies and log are dropped together
\* the modules a commit of session s writes
ModifiedMods(s) == {m \in Modules : copy[s][m].loaded /\ copy[s][m].modified}

DiscardedCopies_mut(cps) == cps
DiscardedCopies(cps) == [m \in Modules |-> NoCopy]

dm_discard_changes(s) ==
    /\ s \in dm_sessions
    /\ copy' = [copy EXCEPT ![s] = DiscardedCopies(@)]
    /\ oplog' = [oplog EXCEPT ![s] = <<>>]
    /\ dm_last' = [NoDmEvent EXCEPT !.op = "discard", !.sess = s,
                                    !.nmods = Cardinality(ModifiedMods(s))]
    /\ UNCHANGED <<dm_sessions, dm_next_sid, disk, disk_ts, locks, dm_ops>>
    /\ UNCHANGED <<in_vars, out_vars, cm_vars, np_vars, acc_vars, rp_vars, nt_vars, pw_vars, nc_vars>>

\* session refresh: every working copy older than its data file is loaded
\* again and the session's operations of that module are applied on top
Stale(s, m) == copy[s][m].loaded /\ copy[s][m].ts # disk_ts[m]

\* a refresh that keeps the session's old trees and its whole log
RefreshLog_mut(s, log, tree) ==
    [kept |-> log, tree |-> [m \in Modules |-> copy[s][m].tree], ok |-> TRUE]

RECURSIVE RefreshLog(_, _, _)
RefreshLog(s, log, tree) ==
    \* tree: module -> tree built so far; returns the kept log and the trees
    IF log = <<>> THEN [kept |-> <<>>, tree |-> tree, ok |-> TRUE]
    ELSE LET e == Head(log)
         IN  IF ~Stale(s, e.mod)
             THEN LET rest == RefreshLog(s, Tail(log), tree)
                  IN  [rest EXCEPT !.kept = <<e>> \o @]
             ELSE LET r == ApplyOp(tree[e.mod], e)
                  IN  IF r.rc # "OK"
                      THEN [RefreshLog(s, Tail(log), tree) EXCEPT !.ok = FALSE]
                      ELSE LET rest == RefreshLog(s, Tail(log), [tree EXCEPT ![e.mod] = r.tree])
                           IN  [rest EXCEPT !.kept = <<e>> \o @]

SessionRefresh(s) ==
    /\ s \in dm_sessions
    /\ LET r == RefreshLog(s, oplog[s], disk)
       IN  /\ copy' = [copy EXCEPT ![s] =
                        [m \in Modules |->
                           IF Stale(s, m)
                           THEN [loaded |-> TRUE, tree |-> r.tree[m], ts |-> disk_ts[m],
                                 modified |-> (OpsOf(r.kept, m) # <<>>)]
                           ELSE copy[s][m]]]
           /\ oplog' = [oplog EXCEPT ![s] = r.kept]
           \* the operations that failed are reported: sr_session_refresh
           \* returns an error when there is one
           /\ dm_last' = [NoDmEvent EXCEPT !.op = "refresh", !.sess = s,
                                           !.rc = IF r.ok THEN "OK" ELSE "INTERNAL"]
    /\ UNCHANGED <<dm_sessions, dm_next_sid, disk, disk_ts, locks, dm_ops>>
    /\ UNCHANGED <<in_vars, out_vars, cm_vars, np_vars, acc_vars, rp_vars, nt_vars, pw_vars, nc_vars>>

\* phases 3 and 4 of the commit for module m: the session copy is used as
\* it is when its timestamp is that of the data file, otherwise the
\* session's operations are replayed on the tree loaded from the file
CommitTree(s, m) ==
    IF copy[s][m].ts = disk_ts[m]
    THEN [tree |-> copy[s][m].tree, rc |-> "OK"]
    ELSE Replay(disk[m], OpsOf(oplog[s], m))

\* phase 6 writes the modules in ascending order: those written before the
\* k-th one
WrittenBefore(mods, k) ==
    {m \in mods : Cardinality({x \in mods : x < m}) < k - 1}

\* phase 6 failed: the data files after the roll-back, given the files
\* before the commit (pre) and as the failed phase left them (cur)
dm_commit_rollback_mut(pre, cur) == cur
dm_commit_rollback(pre, cur) == pre

\* the sessions whose working copies phase 7 replaces with the committed trees
PostCommitSessions_mut(s) == dm_sessions
PostCommitSessions(s) == {s}

\* dm_commit of session s; failAt = k > 0: the file lock or the write of the
\* k-th module fails in phase 6
dm_commit_result(s, failAt) ==
    LET mods == ModifiedMods(s)
        new  == [m \in Modules |-> IF m \in mods THEN CommitTree(s, m).tree ELSE disk[m]]
    IN  IF \E m \in mods : ~Valid(copy[s][m].tree)
        THEN [rc |-> "VALIDATION_FAILED", phase |-> 1, disk |-> disk]
        ELSE IF \E m \in mods : CommitTree(s, m).rc # "OK"
        THEN [rc |-> "COMMIT_FAILED", phase |-> 4, disk |-> disk]
        ELSE IF \E m \in mods : ~Valid(new[m])
        THEN [rc |-> "VALIDATION_FAILED", phase |-> 5, disk |-> disk]
        ELSE IF failAt > 0
        THEN [rc |-> "COMMIT_FAILED", phase |-> 6,
              disk |-> dm_commit_rollback(disk,
                          [m \in Modules |-> IF m \in WrittenBefore(mods, failAt)
                                             THEN new[m] ELSE disk[m]])]
        ELSE [rc |-> "OK", phase |-> 7, disk |-> new]

dm_commit(s, failAt) ==
    /\ s \in dm_sessions
    /\ failAt <= Cardinality(ModifiedMods(s))
    /\ LET mods == ModifiedMods(s)
           r    == dm_commit_result(s, failAt)
       IN  /\ (r.phase < 6) => (failAt = 0)
           /\ disk' = r.disk
           /\ dm_last' = [op |-> "commit", sess |-> s, mod |-> 0, rc |-> r.rc,
                          phase |-> r.phase, nmods |-> Cardinality(mods), at |-> failAt]
           /\ IF r.rc = "OK"
              THEN /\ disk_ts' = [m \in Modules |-> IF m \in mods THEN disk_ts[m] + 1 ELSE disk_ts[m]]
                   /\ oplog' = [oplog EXCEPT ![s] = <<>>]
                   /\ copy' = [t \in DmSess |-> [m \in Modules |->
                                 IF t \in PostCommitSessions(s) /\ m \in mods /\ copy[t][m].loaded
                                 THEN [loaded |-> TRUE, tree |-> r.disk[m],
                                       ts |-> disk_ts[m] + 1, modified |-> FALSE]
                                 ELSE copy[t][m]]]
              ELSE UNCHANGED <<disk_ts, oplog, copy>>
    /\ UNCHANGED <<dm_sessions, dm_next_sid, locks, dm_ops>>
    /\ UNCHANGED <<in_vars, out_vars, cm_vars, np_vars, acc_vars, rp_vars, nt_vars, pw_vars, nc_vars>>

\* module m is locked by a session other than s
LockedByOther_mut(lk, s, m) == FALSE
LockedByOther(lk, s, m) == lk[m] \notin {NoSess, s}

dm_lock_module(s, m) ==
    /\ s \in dm_sessions
    /\ IF LockedByOther(locks, s, m)
       THEN /\ locks' = locks
            /\ dm_last' = [NoDmEvent EXCEPT !.op = "lock_module", !.sess = s, !.mod = m, !.rc = "LOCKED"]
       ELSE /\ locks' = [locks EXCEPT ![m] = s]
            /\ dm_last' = [NoDmEvent EXCEPT !.op = "lock_module", !.sess = s, !.mod = m]
    /\ UNCHANGED <<dm_sessions, dm_next_sid, disk, disk_ts, copy, oplog, dm_ops>>
    /\ UNCHANGED <<in_vars, out_vars, cm_vars, np_vars, acc_vars, rp_vars, nt_vars, pw_vars, nc_vars>>

dm_unlock_module(s, m) ==
    /\ s \in dm_sessions
    /\ IF locks[m] = s
       THEN /\ locks' = [locks EXCEPT ![m] = NoSess]
            /\ dm_last' = [NoDmEvent EXCEPT !.op = "unlock_module", !.sess = s, !.mod = m]
       ELSE /\ locks' = locks
            /\ dm_last' = [NoDmEvent EXCEPT !.op = "unlock_module", !.sess = s, !.mod = m, !.rc = "INVAL_ARG"]
    /\ UNCHANGED <<dm_sessions, dm_next_sid, disk, disk_ts, copy, oplog, dm_ops>>
    /\ UNCHANGED <<in_vars, out_vars, cm_vars, np_vars, acc_vars, rp_vars, nt_vars, pw_vars, nc_vars>>

\* lock_datastore: every module is locked, or none when one of them is
\* held by another session
dm_lock_datastore(s) ==
    /\ s \in dm_sessions
    /\ IF \E m \in Modules : LockedByOther(locks, s, m)
       THEN /\ locks' = locks
            /\ dm_last' = [NoDmEvent EXCEPT !.op = "lock_datastore", !.sess = s, !.rc = "LOCKED"]
       ELSE /\ locks' = [m \in Modules |-> s]
            /\ dm_last' = [NoDmEvent EXCEPT !.op = "lock_datastore", !.sess = s]
    /\ UNCHANGED <<dm_sessions, dm_next_sid, disk, disk_ts, copy, oplog, dm_ops>>
    /\ UNCHANGED <<in_vars, out_vars, cm_vars, np_vars, acc_vars, rp_vars, nt_vars, pw_vars, nc_vars>>

dm_unlock_datastore(s) ==
    /\ s \in dm_sessions
    /\ locks' = [m \in Modules |-> IF locks[m] = s THEN NoSess ELSE locks[m]]
    /\ dm_last' = [NoDmEvent EXCEPT !.op = "unlock_datastore", !.sess = s]
    /\ UNCHANGED <<dm_sessions, dm_next_sid, disk, disk_ts, copy, oplog, dm_ops>>
    /\ UNCHANGED <<in_vars, out_vars, cm_vars, np_vars, acc_vars, rp_vars, nt_vars, pw_vars, nc_vars>>

(* ------------------------------------------------------------------ *)
(* Notification Processor and Persistence Manager                      *)
(* ------------------------------------------------------------------ *)
\* a destination address is the address of the subscriber on connection a
Addr     == Conn
DstIds   == 1..MaxDstId
NoModule == 0
AnyId    == 0

Range(seq) == {seq[i] : i \in 1..Len(seq)}

\* results of pm_load_data_tree
LoadRcs == {"OK", "UNAUTHORIZED"}

\* np_dst_info_insert: the module is added to the entry of the address,
\* the entry is created when missing
np_dst_info_insert(di, a, m) ==
    IF m \in Range(di[a]) THEN di ELSE [di EXCEPT ![a] = Append(@, m)]

\* np_dst_info_remove; `deleted` says that sr_btree_delete was called
np_dst_info_remove(di, a, m) ==
    IF m = NoModule
    THEN [di |-> [di EXCEPT ![a] = <<>>], deleted |-> TRUE]
    ELSE IF di[a] = <<>>
    THEN [di |-> di, deleted |-> FALSE]
    ELSE IF Len(di[a]) = 1
    THEN [di |-> [di EXCEPT ![a] = <<>>], deleted |-> TRUE]
    ELSE [di |-> [di EXCEPT ![a] = SelectSeq(@, LAMBDA x : x # m)], deleted |-> FALSE]

\* a subscription entry of a persist file matches the XPath built from xp
\* (PM_XPATH_SUBSCRIPTIONS, or PM_XPATH_SUBSCRIPTIONS_BY_DST_ADDR when the
\* id is AnyId)
Matches(sub, xp) == sub.addr = xp.addr /\ (xp.id = AnyId \/ sub.id = xp.id)

\* the features of the test schema
FeatureNames == {"ifconfig", "ethernet"}

\* a persist file: whether it exists, whether it holds a data tree, the
\* subscription entries and the enabled features of the tree
NoFile == [exists |-> FALSE, tree |-> FALSE, subs |-> <<>>, features |-> {}]
NoPmCall == [op |-> "none", mod |-> 0, feature |-> "ifconfig", enable |-> FALSE,
             rc |-> "OK", cnt |-> 0, before |-> NoFile]

\* pm_load_data_tree: openrc is the result of the first open(); a missing
\* file is an error for a read-only load and is created otherwise
pm_load_data_tree(file, read_only, openrc) ==
    IF openrc # "OK" THEN [file |-> file, rc |-> openrc]
    ELSE IF ~file.exists
    THEN IF read_only THEN [file |-> file, rc |-> "DATA_MISSING"]
         ELSE [file |-> [file EXCEPT !.exists = TRUE], rc |-> "OK"]
    ELSE [file |-> file, rc |-> "OK"]

\* the xpath names one enabled-features entry (otherwise subscriptions)
IsFeaturePath(xp) == "feature" \in DOMAIN xp

\* lyd_new_path of the xpath on the tree: no node when it already exists
AddNode(file, xp) ==
    IF IsFeaturePath(xp)
    THEN IF xp.feature \in file.features
         THEN [file |-> file, rc |-> "DATA_EXISTS"]
         ELSE [file |-> [file EXCEPT !.tree = TRUE, !.features = @ \cup {xp.feature}],
               rc |-> "OK"]
    ELSE IF xp \in Range(file.subs)
         THEN [file |-> file, rc |-> "DATA_EXISTS"]
         ELSE [file |-> [file EXCEPT !.tree = TRUE, !.subs = Append(@, xp)], rc |-> "OK"]

\* lyd_get_node and lyd_unlink of every node found
DeleteNodes(file, xp) ==
    IF IsFeaturePath(xp)
    THEN [file EXCEPT !.features = @ \ {xp.feature}]
    ELSE [file EXCEPT !.subs = SelectSeq(@, LAMBDA x : ~Matches(x, xp))]

\* pm_save_persistent_data on the persist file of one module
pm_save_persistent_data(file, add, xp, loadrc) ==
    LET ld == pm_load_data_tree(file, FALSE, loadrc)
    IN  IF ld.rc # "OK" THEN ld
        ELSE IF ~ld.file.tree /\ ~add THEN [file |-> ld.file, rc |-> "DATA_MISSING"]
        ELSE IF add THEN AddNode(ld.file, xp)
        ELSE [file |-> DeleteNodes(ld.file, xp), rc |-> "OK"]

pm_save_feature_state(file, f, enable, loadrc) ==
    pm_save_persistent_data(file, enable, [feature |-> f], loadrc)

\* pm_get_features: result code and the features returned
pm_get_features(file, openrc) ==
    LET ld == pm_load_data_tree(file, TRUE, openrc)
    IN  IF ld.rc # "OK" THEN [rc |-> ld.rc, features |-> {}, file |-> ld.file]
        ELSE [rc |-> "OK", features |-> IF file.tree THEN file.features ELSE {},
              file |-> ld.file]

\* the result code of pm_get_subscriptions
pm_get_subscriptions_rc(file, openrc) == pm_load_data_tree(file, TRUE, openrc).rc

pm_save_subscribtion_state(file, a, id, subscribe, loadrc) ==
    pm_save_persistent_data(file, subscribe, [addr |-> a, id |-> id], loadrc)

pm_remove_subscriptions_for_destination(file, a, loadrc) ==
    pm_save_persistent_data(file, FALSE, [addr |-> a, id |-> AnyId], loadrc)

\* pm_get_subscriptions for the module-change event
pm_get_subscriptions(file) == IF file.tree THEN file.subs ELSE <<>>

\* dm_feature_enable's call of pm_save_feature_state for module m
SaveFeatureState(m, f, enable, loadrc) ==
    /\ LET res == pm_save_feature_state(persist[m], f, enable, loadrc)
       IN  /\ persist' = [persist EXCEPT ![m] = res.file]
           /\ pm_last' = [op |-> "save_feature", mod |-> m, feature |-> f,
                          enable |-> enable, rc |-> res.rc, cnt |-> 0,
                          before |-> persist[m]]
    /\ UNCHANGED <<np_subscriptions, np_dst_info, np_lock_leaked, np_halted,
                   np_subscribes, np_boot, np_last>>
    /\ UNCHANGED <<in_vars, out_vars, cm_vars, dm_vars, acc_vars, rp_vars, pw_vars, nc_vars>>

\* a call of pm_get_features for module m
GetFeatures(m, openrc) ==
    /\ LET res == pm_get_features(persist[m], openrc)
       IN  /\ persist' = [persist EXCEPT ![m] = res.file]
           /\ pm_last' = [NoPmCall EXCEPT !.op = "get_features", !.mod = m,
                          !.rc = res.rc, !.cnt = Cardinality(res.features),
                          !.before = persist[m]]
    /\ UNCHANGED <<np_subscriptions, np_dst_info, np_lock_leaked, np_halted,
                   np_subscribes, np_boot, np_last>>
    /\ UNCHANGED <<in_vars, out_vars, cm_vars, dm_vars, acc_vars, rp_vars, pw_vars, nc_vars>>

\* a call of pm_get_subscriptions for module m
GetSubscriptions(m, openrc) ==
    /\ LET ld == pm_load_data_tree(persist[m], TRUE, openrc)
       IN  /\ persist' = [persist EXCEPT ![m] = ld.file]
           /\ pm_last' = [NoPmCall EXCEPT !.op = "get_subscriptions", !.mod = m,
                          !.rc = pm_get_subscriptions_rc(persist[m], openrc),
                          !.cnt = IF ld.rc = "OK"
                                  THEN Len(pm_get_subscriptions(persist[m])) ELSE 0,
                          !.before = persist[m]]
    /\ UNCHANGED <<np_subscriptions, np_dst_info, np_lock_leaked, np_halted,
                   np_subscribes, np_boot, np_last>>
    /\ UNCHANGED <<in_vars, out_vars, cm_vars, dm_vars, acc_vars, rp_vars, pw_vars, nc_vars>>

\* the process after sr_btree_delete was called with a lookup item: the
\* red-black tree build frees the lookup item itself, which is not heap memory
AfterBtreeDelete(deleted, ub) == deleted /\ ub = "crash"

np_notification_subscribe(a, id, ev, m, loadrc, ub) ==
    /\ ~np_halted /\ ~np_lock_leaked
    /\ a \in cm_conns
    /\ np_subscribes < MaxSubscribes
    /\ np_subscribes' = np_subscribes + 1
    /\ IF ev = "module_change"
       THEN LET di1 == np_dst_info_insert(np_dst_info, a, m)
                res == pm_save_subscribtion_state(persist[m], a, id, TRUE, loadrc)
                rem == np_dst_info_remove(di1, a, m)
            IN  /\ m \in Modules
                /\ persist' = [persist EXCEPT ![m] = res.file]
                /\ IF res.rc = "OK"
                   THEN /\ np_dst_info' = di1
                        /\ ub = "none"
                        /\ np_halted' = np_halted
                   ELSE /\ np_dst_info' = rem.di
                        /\ (~rem.deleted) => (ub = "none")
                        /\ np_halted' = AfterBtreeDelete(rem.deleted, ub)
                /\ UNCHANGED np_subscriptions
       ELSE /\ m = NoModule /\ loadrc = "OK" /\ ub = "none"
            /\ np_subscriptions' = Append(np_subscriptions, [ev |-> ev, addr |-> a, id |-> id])
            /\ UNCHANGED <<np_dst_info, persist, np_halted>>
    /\ UNCHANGED <<np_lock_leaked, np_boot>>
    /\ UNCHANGED <<in_vars, out_vars, cm_vars, dm_vars, acc_vars, rp_vars, nt_vars, pw_vars, nc_vars>>

\* index of the first transient subscription with this address and id (0: none)
FirstTransient(a, id) ==
    IF \E i \in 1..Len(np_subscriptions) :
          np_subscriptions[i].addr = a /\ np_subscriptions[i].id = id
    THEN CHOOSE i \in 1..Len(np_subscriptions) :
          /\ np_subscriptions[i].addr = a /\ np_subscriptions[i].id = id
          /\ \A j \in 1..(i - 1) :
               ~(np_subscriptions[j].addr = a /\ np_subscriptions[j].id = id)
    ELSE 0

np_notification_unsubscribe(a, id, ev, m, loadrc, ub) ==
    /\ ~np_halted /\ ~np_lock_leaked
    /\ a \in cm_conns
    /\ IF ev = "module_change"
       THEN LET res == pm_save_subscribtion_state(persist[m], a, id, FALSE, loadrc)
                rem == np_dst_info_remove(np_dst_info, a, m)
            IN  /\ m \in Modules
                /\ persist' = [persist EXCEPT ![m] = res.file]
                /\ IF res.rc = "OK"
                   THEN /\ np_dst_info' = rem.di
                        /\ (~rem.deleted) => (ub = "none")
                        /\ np_halted' = AfterBtreeDelete(rem.deleted, ub)
                   ELSE /\ np_dst_info' = np_dst_info
                        /\ ub = "none"
                        /\ np_halted' = np_halted
                /\ UNCHANGED np_subscriptions
       ELSE LET i == FirstTransient(a, id)
            IN  /\ m = NoModule /\ loadrc = "OK" /\ ub = "none"
                /\ IF i = 0
                   THEN /\ np_subscriptions' = np_subscriptions
                   ELSE /\ np_subscriptions' = SubSeq(np_subscriptions, 1, i - 1)
                                               \o SubSeq(np_subscriptions, i + 1, Len(np_subscriptions))
                /\ UNCHANGED <<np_dst_info, persist, np_halted>>
    /\ UNCHANGED <<np_lock_leaked, np_subscribes, np_boot>>
    /\ UNCHANGED <<in_vars, out_vars, cm_vars, dm_vars, acc_vars, rp_vars, nt_vars, pw_vars, nc_vars>>

\* the loop of np_unsubscribe_destination over the modules of the entry;
\* failAt = k > 0: loading the persist file of the k-th module fails
RECURSIVE PurgeLoop(_, _, _, _, _)
PurgeLoop(files, mods, a, failAt, k) ==
    IF mods = <<>> THEN [files |-> files, rc |-> "OK"]
    ELSE LET m   == Head(mods)
             res == pm_remove_subscriptions_for_destination(
                        files[m], a, IF k = failAt THEN "UNAUTHORIZED" ELSE "OK")
         IN  IF res.rc # "OK"
             THEN [files |-> files, rc |-> res.rc]
             ELSE PurgeLoop([files EXCEPT ![m] = res.file], Tail(mods), a, failAt, k + 1)

np_unsubscribe_destination(a, failAt, ub) ==
    /\ ~np_halted /\ ~np_lock_leaked
    /\ failAt <= Len(np_dst_info[a])
    /\ IF np_dst_info[a] = <<>>
       THEN /\ ub = "none"
            /\ UNCHANGED <<np_dst_info, persist, np_halted, np_lock_leaked>>
       ELSE LET res == PurgeLoop(persist, np_dst_info[a], a, failAt, 1)
            IN  /\ persist' = res.files
                /\ IF res.rc = "OK"
                   THEN /\ np_dst_info' = np_dst_info_remove(np_dst_info, a, NoModule).di
                        /\ np_halted' = AfterBtreeDelete(TRUE, ub)
                        /\ np_lock_leaked' = np_lock_leaked
                   ELSE \* the function returns with np_ctx->lock still held
                        /\ ub = "none"
                        /\ np_lock_leaked' = TRUE
                        /\ UNCHANGED <<np_dst_info, np_halted>>
    /\ UNCHANGED <<np_subscriptions, np_subscribes, np_boot>>
    /\ UNCHANGED <<in_vars, out_vars, cm_vars, dm_vars, acc_vars, rp_vars, nt_vars, pw_vars, nc_vars>>

\* what happens to one subscription inside a notify loop: the message is
\* sent, cm_msg_send fails, the allocation of the message fails, or (module
\* change only) np_dst_info_insert fails
Outcomes == {"OK", "SEND_FAILED", "ALLOC_NOMEM", "INSERT_NOMEM"}
NoNotify == [op |-> "none", mod |-> 0, outs |-> <<>>, attempted |-> {}, rc |-> "OK"]

\* the outcomes of one loop: nothing is drawn for the subscriptions behind
\* the one the loop breaks at
LoopOutcomes(n, set) ==
    {outs \in [1..n -> set] :
        \A k \in 1..n : (\E j \in 1..(k - 1) : outs[j] \in {"ALLOC_NOMEM", "INSERT_NOMEM"})
                            => (outs[k] = "OK")}

\* the loop leaves with `break` only when rc is not OK before the send;
\* the result of cm_msg_send is overwritten by the next iteration
LoopGoesOn_mut(out) == out = "OK"
LoopGoesOn(out) == out \in {"OK", "SEND_FAILED"}

\* the loop of np_module_change_notify over the subscriptions returned by
\* the Persistence Manager, from the k-th on: destination-info updates,
\* the indices of the subscriptions cm_msg_send was called for, the result
RECURSIVE NotifyLoop(_, _, _, _, _)
NotifyLoop(cur, subs, m, outs, k) ==
    IF k > Len(subs) THEN cur
    ELSE IF outs[k] \in {"ALLOC_NOMEM", "INSERT_NOMEM"}
    THEN [cur EXCEPT !.rc = "NOMEM"]
    ELSE LET nxt == [di |-> np_dst_info_insert(cur.di, subs[k].addr, m),
                     attempted |-> cur.attempted \cup {k},
                     rc |-> IF outs[k] = "OK" THEN "OK" ELSE "INTERNAL"]
         IN  IF LoopGoesOn(outs[k]) THEN NotifyLoop(nxt, subs, m, outs, k + 1) ELSE nxt

np_module_change_notify(m) ==
    /\ ~np_halted
    /\ (~np_lock_leaked) \/ (pm_get_subscriptions(persist[m]) = <<>>)
    /\ LET subs == pm_get_subscriptions(persist[m])
       IN  \E outs \in LoopOutcomes(Len(subs), Outcomes) :
             LET res == NotifyLoop([di |-> np_dst_info, attempted |-> {}, rc |-> "OK"],
                                   subs, m, outs, 1)
             IN  /\ np_dst_info' = res.di
                 /\ np_last' = [op |-> "module_change", mod |-> m, outs |-> outs, attempted |-> res.attempted, rc |-> res.rc]
    /\ UNCHANGED <<np_subscriptions, persist, np_halted, np_lock_leaked, np_subscribes, np_boot>>
    /\ UNCHANGED <<in_vars, out_vars, cm_vars, dm_vars, acc_vars, rp_vars, pm_last, pw_vars, nc_vars>>

\* the loop of np_module_install_notify over the subscription table
RECURSIVE InstallLoop(_, _, _, _)
InstallLoop(cur, subs, outs, k) ==
    IF k > Len(subs) THEN cur
    ELSE IF outs[k] = "ALLOC_NOMEM"
    THEN [cur EXCEPT !.rc = "NOMEM"]
    ELSE LET nxt == [attempted |-> cur.attempted \cup {k},
                     rc |-> IF outs[k] = "OK" THEN "OK" ELSE "INTERNAL"]
         IN  IF LoopGoesOn(outs[k]) THEN InstallLoop(nxt, subs, outs, k + 1) ELSE nxt

np_module_install_notify(m) ==
    /\ ~np_halted /\ ~np_lock_leaked
    /\ LET subs == SelectSeq(np_subscriptions, LAMBDA x : x.ev = "module_install")
       IN  \E outs \in LoopOutcomes(Len(subs), Outcomes \ {"INSERT_NOMEM"}) :
             LET res == InstallLoop([attempted |-> {}, rc |-> "OK"], subs, outs, 1)
             IN  np_last' = [op |-> "module_install", mod |-> m, outs |-> outs, attempted |-> res.attempted, rc |-> res.rc]
    /\ UNCHANGED np_vars
    /\ UNCHANGED <<in_vars, out_vars, cm_vars, dm_vars, acc_vars, rp_vars, pm_last, pw_vars, nc_vars>>

\* a call made while np_ctx->lock is still held by a returned
\* np_unsubscribe_destination blocks for ever at its first lock operation;
\* an unsubscribe of a module-change subscription has updated the persist
\* file before it reaches the lock
BlockedOnLock(a, id, m, unsub) ==
    /\ ~np_halted /\ np_lock_leaked
    /\ a \in cm_conns
    /\ LET res == pm_save_subscribtion_state(persist[m], a, id, FALSE, "OK")
       IN  IF unsub
           THEN /\ res.rc = "OK"
                /\ persist' = [persist EXCEPT ![m] = res.file]
           ELSE /\ id = 1 /\ m = 1
                /\ persist' = persist
    /\ np_halted' = TRUE
    /\ UNCHANGED <<np_subscriptions, np_dst_info, np_lock_leaked, np_subscribes, np_boot>>
    /\ UNCHANGED <<in_vars, out_vars, cm_vars, dm_vars, acc_vars, rp_vars, nt_vars, pw_vars, nc_vars>>

\* np_init: the context a starting engine allocates: no transient
\* subscription, an empty destination-info tree; no persist file is read
np_init_mut == [subscriptions |-> np_subscriptions, dst_info |-> np_dst_info]
np_init == [subscriptions |-> <<>>, dst_info |-> [a \in Addr |-> <<>>]]

\* the engine stops (np_cleanup frees the subscription table and the
\* destination-info tree, every connection is closed) and starts again
\* (np_init); the persist files stay on disk
np_restart ==
    /\ np_boot.runs < MaxRestarts
    /\ np_boot' = [runs |-> np_boot.runs + 1, dropped |-> Len(np_subscriptions)]
    /\ np_subscriptions' = np_init.subscriptions
    /\ np_dst_info' = np_init.dst_info
    /\ np_lock_leaked' = FALSE
    /\ np_halted' = FALSE
    /\ cm_conns' = {}
    /\ UNCHANGED <<persist, np_subscribes>>
    /\ UNCHANGED <<sess_conn, rp_req_cnt, rp_resp_expected, request_queue, next_sid,
                   rp_work, rp_stops, arrived, responded, next_req, cm_crashed, cm_ev,
                   srv_sent, resp_fwd>>
    /\ UNCHANGED <<in_vars, out_vars, dm_vars, acc_vars, rp_vars, nt_vars, pw_vars, nc_vars>>

(* ------------------------------------------------------------------ *)
(* Request Processor: lists and their order                            *)
(* ------------------------------------------------------------------ *)
\* the lists of test-module: "user" is ordered by the user, "list" is not
ListNames == {"user", "list"}
UserOrdered(l) == (l = "user")
Keys == 1..MaxKeys
Directions == {"SR_MOVE_UP", "SR_MOVE_DOWN"}
\* after_up: the edit is a move-down made right after a successful move-up
\* of the same entry; orig is then the list before that move-up
NoListEdit == [op |-> "none", list |-> "user", key |-> 0, dir |-> "SR_MOVE_UP",
               rc |-> "OK", before |-> <<>>, after_up |-> FALSE, orig |-> <<>>]

\* position of the entry with key k among its siblings
PosOf(lst, k) == CHOOSE i \in 1..Len(lst) : lst[i] = k

\* the siblings at positions i and j change places
Swap_mut(lst, i, j) == lst
Swap(lst, i, j) ==
    [x \in 1..Len(lst) |-> IF x = i THEN lst[j] ELSE IF x = j THEN lst[i] ELSE lst[x]]

\* a move that takes the entry to the other end of the list
rp_dt_move_list_mut(lst, ordered, k, dir) ==
    IF ~ordered \/ k \notin Range(lst)
    THEN [rc |-> "INVAL_ARG", lst |-> lst]
    ELSE LET others == SelectSeq(lst, LAMBDA x : x # k)
         IN  [rc |-> "OK",
              lst |-> IF dir = "SR_MOVE_UP" THEN <<k>> \o others ELSE others \o <<k>>]

\* rp_dt_move_list: the list instance moves one position in the given
\* direction; INVAL_ARG when the instance does not exist or the list is not
\* user-ordered; nothing happens at the left-most / right-most position
rp_dt_move_list(lst, ordered, k, dir) ==
    IF ~ordered \/ k \notin Range(lst)
    THEN [rc |-> "INVAL_ARG", lst |-> lst]
    ELSE LET i == PosOf(lst, k)
         IN  IF dir = "SR_MOVE_UP"
             THEN IF i = 1 THEN [rc |-> "OK", lst |-> lst]
                  ELSE [rc |-> "OK", lst |-> Swap(lst, i - 1, i)]
             ELSE IF i = Len(lst) THEN [rc |-> "OK", lst |-> lst]
                  ELSE [rc |-> "OK", lst |-> Swap(lst, i, i + 1)]

\* sr_set_item on a list instance: a new instance becomes the last sibling
SetListEntry(l, k) ==
    /\ lists' = [lists EXCEPT ![l] = IF k \in Range(@) THEN @ ELSE Append(@, k)]
    /\ mv_last' = [NoListEdit EXCEPT !.op = "set", !.list = l, !.key = k, !.before = lists[l]]
    /\ UNCHANGED <<node_state, en_last, rd_last>>
    /\ UNCHANGED <<in_vars, out_vars, cm_vars, dm_vars, np_vars, acc_vars, nt_vars, pw_vars, nc_vars>>

\* sr_delete_item on a list instance
DeleteListEntry(l, k) ==
    /\ k \in Range(lists[l])
    /\ lists' = [lists EXCEPT ![l] = SelectSeq(@, LAMBDA x : x # k)]
    /\ mv_last' = [NoListEdit EXCEPT !.op = "delete", !.list = l, !.key = k, !.before = lists[l]]
    /\ UNCHANGED <<node_state, en_last, rd_last>>
    /\ UNCHANGED <<in_vars, out_vars, cm_vars, dm_vars, np_vars, acc_vars, nt_vars, pw_vars, nc_vars>>

\* sr_move_item
MoveItem(l, k, dir) ==
    /\ LET r  == rp_dt_move_list(lists[l], UserOrdered(l), k, dir)
           au == /\ dir = "SR_MOVE_DOWN"
                 /\ mv_last.op = "move" /\ mv_last.dir = "SR_MOVE_UP" /\ mv_last.rc = "OK"
                 /\ mv_last.list = l /\ mv_last.key = k
       IN  /\ lists' = [lists EXCEPT ![l] = r.lst]
           /\ mv_last' = [op |-> "move", list |-> l, key |-> k, dir |-> dir,
                          rc |-> r.rc, before |-> lists[l], after_up |-> au,
                          orig |-> IF au THEN mv_last.before ELSE <<>>]
    /\ UNCHANGED <<node_state, en_last, rd_last>>
    /\ UNCHANGED <<in_vars, out_vars, cm_vars, dm_vars, np_vars, acc_vars, nt_vars, pw_vars, nc_vars>>

(* ------------------------------------------------------------------ *)
(* Request Processor: enabling schema nodes in the running datastore   *)
(* ------------------------------------------------------------------ *)
\* the schema tree of the model:
\*   1 container
\*     2 list, key 3
\*       3 leaf (key)
\*       4 leaf
\*       5 container
\*         6 leaf
SchemaNodes == 1..6
NoNode == 0
Parent(n) == CASE n = 1 -> NoNode
               [] n = 2 -> 1
               [] n \in {3, 4, 5} -> 2
               [] OTHER -> 5
NodeType(n) == CASE n \in {1, 5} -> "LYS_CONTAINER"
                 [] n = 2 -> "LYS_LIST"
                 [] OTHER -> "LYS_LEAF"
\* lys_node_list.keys
ListKeys(n) == IF n = 2 THEN <<3>> ELSE <<>>

\* the proper ancestors of a node, nearest first
RECURSIVE Ancestors(_)
Ancestors(n) == IF Parent(n) = NoNode THEN <<>> ELSE <<Parent(n)>> \o Ancestors(Parent(n))

dm_is_node_enabled(st, n) ==
    st[n] \in {"DM_NODE_ENABLED", "DM_NODE_ENABLED_WITH_CHILDREN"}

dm_is_node_enabled_with_children(st, n) == st[n] = "DM_NODE_ENABLED_WITH_CHILDREN"

\* the node is enabled directly or one of its parents is enabled with children
dm_is_enabled_check_recursively(st, n) ==
    \/ dm_is_node_enabled(st, n)
    \/ \E a \in Range(Ancestors(n)) : dm_is_node_enabled_with_children(st, a)

\* dm_set_node_state as the cur.n + 1 st call of one rp_dt_enable_xpath;
\* the call numbered failAt returns an error.  Once rc is not OK the
\* caller has returned and nothing more is done.
dm_set_node_state(cur, n, state, failAt) ==
    IF cur.rc # "OK" THEN cur
    ELSE IF cur.n + 1 = failAt THEN [cur EXCEPT !.n = @ + 1, !.rc = "NOMEM"]
    ELSE [cur EXCEPT !.n = @ + 1, !.st[n] = state]

\* rp_dt_enable_key_nodes: the keys of a list that are not enabled are enabled
RECURSIVE EnableKeys(_, _, _)
EnableKeys(cur, keys, failAt) ==
    IF keys = <<>> \/ cur.rc # "OK" THEN cur
    ELSE EnableKeys(IF dm_is_node_enabled(cur.st, Head(keys)) THEN cur
                    ELSE dm_set_node_state(cur, Head(keys), "DM_NODE_ENABLED", failAt),
                    Tail(keys), failAt)

rp_dt_enable_key_nodes(cur, n, failAt) ==
    IF NodeType(n) = "LYS_LIST" THEN EnableKeys(cur, ListKeys(n), failAt) ELSE cur

\* an ancestor found enabled is passed over together with its keys
SkipAncestor(st, n) == dm_is_node_enabled(st, n)

\* the loop of rp_dt_enable_xpath over the parents of the target
RECURSIVE EnableUp(_, _, _)
EnableUp(cur, n, failAt) ==
    IF n = NoNode \/ cur.rc # "OK" THEN cur
    ELSE IF SkipAncestor(cur.st, n) THEN EnableUp(cur, Parent(n), failAt)
    ELSE EnableUp(rp_dt_enable_key_nodes(
                      dm_set_node_state(cur, n, "DM_NODE_ENABLED", failAt), n, failAt),
                  Parent(n), failAt)

\* rp_dt_enable_xpath on the xpath of schema node `match`; valres is the
\* result of rp_dt_validate_node_xpath
rp_dt_enable_xpath(st, match, valres, failAt) ==
    IF valres # "OK" \/ match = NoNode
    THEN [st |-> st, n |-> 0, rc |-> IF valres # "OK" THEN valres ELSE "BAD_ELEMENT"]
    ELSE LET c0 == [st |-> st, n |-> 0, rc |-> "OK"]
             c1 == dm_set_node_state(c0, match,
                       IF NodeType(match) \in {"LYS_CONTAINER", "LYS_LIST"}
                       THEN "DM_NODE_ENABLED_WITH_CHILDREN" ELSE "DM_NODE_ENABLED", failAt)
         IN  EnableUp(c1, Parent(match), failAt)

\* most dm_set_node_state calls one rp_dt_enable_xpath makes in this tree
MaxSetCalls == 5

EnableXpath(match, valres, failAt) ==
    /\ LET r == rp_dt_enable_xpath(node_state, match, valres, failAt)
       IN  /\ (failAt > 0) => (r.rc = "NOMEM")
           /\ node_state' = r.st
           /\ en_last' = [target |-> match, rc |-> r.rc]
    /\ UNCHANGED <<lists, mv_last, rd_last>>
    /\ UNCHANGED <<in_vars, out_vars, cm_vars, dm_vars, np_vars, acc_vars, nt_vars, pw_vars, nc_vars>>

(* ------------------------------------------------------------------ *)
(* Notification Processor: calls on concurrent threads                 *)
(* ------------------------------------------------------------------ *)
\* Each action below is one region of a call: the code between taking
\* np_ctx->lock and releasing it, or a stretch that runs without the lock.
\* Regions under the lock exclude each other, so each is one step.
NpThreads == 1..MaxNpThreads

NoSub == [ev |-> "none", addr |-> 0, id |-> 0]

\* the calls: np_dst_info_insert(address, module), and subscribe and
\* unsubscribe of a module-install subscription (address, id)
NpCallKinds ==
    [op : {"insert"}, addr : Addr, id : {AnyId}, mod : Modules]
       \cup [op : {"subscribe", "unsubscribe"}, addr : Addr, id : DstIds, mod : {NoModule}]

NoNpWork == [pc |-> "idle", call |-> [op |-> "none", addr |-> 0, id |-> AnyId, mod |-> NoModule],
             info |-> "none", idx |-> 0, removed |-> NoSub, rc |-> "OK"]

\* the call of thread t: nc holds the threads that have made a call
NcOf(t) == IF t \in DOMAIN nc THEN nc[t] ELSE NoNpWork
NcWith(t, work) == [u \in DOMAIN nc \cup {t} |-> IF u = t THEN work ELSE nc[u]]

\* the sequence without its i-th element
RemoveAt(seq, i) == SubSeq(seq, 1, i - 1) \o SubSeq(seq, i + 1, Len(seq))

\* the part of np_dst_info_insert under the read lock: the entry found for
\* the address ("null": none) and whether it lists the module
InfoSearch(di, a, m) ==
    [info |-> IF di[a] = <<>> THEN "null" ELSE "entry", listed |-> m \in Range(di[a])]

\* the part of np_dst_info_insert under the write lock, working on what
\* the search has found.  An entry created for an address that has one by
\* now is not put into the tree: sr_btree_insert finds the other entry (red-
\* black build, dup = "OK") or is refused (AVL build, dup = "INTERNAL").
InfoUpdate(di, a, m, info, dup) ==
    IF info = "null"
    THEN IF di[a] = <<>>
         THEN [di |-> [di EXCEPT ![a] = <<m>>], rc |-> "OK"]
         ELSE [di |-> di, rc |-> dup]
    ELSE [di |-> [di EXCEPT ![a] = Append(@, m)], rc |-> "OK"]

\* the removal of np_notification_unsubscribe under the write lock, for the
\* index i the search has found: the entries behind i move down when there
\* are some, and the count goes down by one
RemoveFound(subs, i) ==
    IF Len(subs) > i THEN [subs |-> RemoveAt(subs, i), removed |-> subs[i]]
    ELSE IF subs = <<>> THEN [subs |-> subs, removed |-> NoSub]
    ELSE [subs |-> SubSeq(subs, 1, Len(subs) - 1), removed |-> subs[Len(subs)]]

NpcOthersUnchanged ==
    /\ UNCHANGED <<persist, np_lock_leaked, np_halted, np_subscribes, np_boot>>
    /\ UNCHANGED <<in_vars, out_vars, cm_vars, dm_vars, acc_vars, rp_vars, nt_vars, pw_vars>>

\* a thread enters a call
NpcCall(t, call) ==
    /\ NcOf(t).pc = "idle"
    /\ nc_calls < MaxNpCalls
    /\ nc_calls' = nc_calls + 1
    /\ nc' = NcWith(t, [NoNpWork EXCEPT !.call = call,
                 !.pc = CASE call.op = "insert" -> "ins_search"
                          [] call.op = "subscribe" -> "sub_append"
                          [] OTHER -> "uns_scan"])
    /\ UNCHANGED <<np_subscriptions, np_dst_info>>
    /\ NpcOthersUnchanged

\* np_dst_info_insert: search under the read lock, which is then released
NpcInsertSearch(t) ==
    /\ NcOf(t).pc = "ins_search"
    /\ LET f == InfoSearch(np_dst_info, NcOf(t).call.addr, NcOf(t).call.mod)
       IN  nc' = NcWith(t, [NcOf(t) EXCEPT !.info = f.info,
                            !.pc = IF f.listed THEN "idle" ELSE "ins_update"])
    /\ UNCHANGED <<np_subscriptions, np_dst_info, nc_calls>>
    /\ NpcOthersUnchanged

\* np_dst_info_insert: the write lock is taken and the entry is updated
NpcInsertUpdate(t, dup) ==
    /\ NcOf(t).pc = "ins_update"
    /\ LET res == InfoUpdate(np_dst_info, NcOf(t).call.addr, NcOf(t).call.mod, NcOf(t).info, dup)
       IN  /\ (dup = "INTERNAL") => (res.rc = "INTERNAL")
           /\ np_dst_info' = res.di
           /\ nc' = NcWith(t, [NcOf(t) EXCEPT !.pc = "idle", !.rc = res.rc])
    /\ UNCHANGED <<np_subscriptions, nc_calls>>
    /\ NpcOthersUnchanged

\* np_notification_subscribe of a transient subscription: the append under
\* the write lock
NpcSubscribe(t) ==
    /\ NcOf(t).pc = "sub_append"
    /\ np_subscriptions' = Append(np_subscriptions,
            [ev |-> "module_install", addr |-> NcOf(t).call.addr, id |-> NcOf(t).call.id])
    /\ nc' = NcWith(t, [NcOf(t) EXCEPT !.pc = "idle"])
    /\ UNCHANGED <<np_dst_info, nc_calls>>
    /\ NpcOthersUnchanged

\* np_notification_unsubscribe: the search for the subscription, which
\* runs without the lock
NpcUnsubScan(t) ==
    /\ NcOf(t).pc = "uns_scan"
    /\ LET i == FirstTransient(NcOf(t).call.addr, NcOf(t).call.id)
       IN  nc' = NcWith(t, [NcOf(t) EXCEPT !.idx = i,
                            !.pc = IF i = 0 THEN "idle" ELSE "uns_remove",
                            !.rc = IF i = 0 THEN "INVAL_ARG" ELSE "OK"])
    /\ UNCHANGED <<np_subscriptions, np_dst_info, nc_calls>>
    /\ NpcOthersUnchanged

\* np_notification_unsubscribe: the removal under the write lock
NpcUnsubRemove(t) ==
    /\ NcOf(t).pc = "uns_remove"
    /\ LET res == RemoveFound(np_subscriptions, NcOf(t).idx)
       IN  /\ np_subscriptions' = res.subs
           /\ nc' = NcWith(t, [NcOf(t) EXCEPT !.pc = "idle", !.removed = res.removed])
    /\ UNCHANGED <<np_dst_info, nc_calls>>
    /\ NpcOthersUnchanged

(* ------------------------------------------------------------------ *)
(* Persistence Manager: one call step by step, on concurrent threads   *)
(* ------------------------------------------------------------------ *)
\* the threads of the engine that call the Persistence Manager
PmThreads == 1..MaxPmThreads
NoThread == 0
\* the module whose persist file the calls work on
PmModule == 1
\* identities: the engine's own, and the effective identity of a caller;
\* NoCred is a NULL user_cred
Engine == 0
Caller == 1
NoCred == 2

\* the calls: pm_save_feature_state (with the caller's credentials),
\* pm_remove_subscriptions_for_destination (without), pm_get_features
PmCallKinds ==
    [ro : {FALSE}, cred : {Caller}, add : BOOLEAN, xp : [feature : FeatureNames]]
      \cup [ro : {FALSE}, cred : {NoCred}, add : {FALSE}, xp : {[addr |-> 1, id |-> AnyId]}]
      \cup [ro : {TRUE}, cred : {NoCred}, add : {FALSE}, xp : {[feature |-> "ifconfig"]}]

NoPmWork == [pc |-> "idle", call |-> [ro |-> TRUE, cred |-> NoCred, add |-> FALSE,
                                      xp |-> [feature |-> "ifconfig"]],
             open |-> "none", fd |-> FALSE, snap |-> NoFile, rc |-> "OK"]

\* the call of thread t: pw holds the threads that have made a call
PwOf(t) == IF t \in DOMAIN pw THEN pw[t] ELSE NoPmWork
PwWith(t, work) == [u \in DOMAIN pw \cup {t} |-> IF u = t THEN work ELSE pw[u]]

\* ac_set_user_identity / ac_unset_user_identity: the process takes the
\* identity of the credentials; a NULL user_cred switches nothing
ac_set_user_identity(id, cred) == IF cred = NoCred THEN id ELSE cred
ac_unset_user_identity_mut(id) == id
ac_unset_user_identity(id) == Engine

\* sr_lock_fd (blocking): a write lock excludes every other holder, a
\* read lock excludes a writer
LockFree(lk, write) ==
    /\ lk.writer = NoThread
    /\ write => (lk.readers = {})

sr_lock_fd(lk, t, write) ==
    IF write THEN [lk EXCEPT !.writer = t] ELSE [lk EXCEPT !.readers = @ \cup {t}]

\* the lock pm_load_data_tree asks for: a write lock unless read_only
LockIsWrite_mut(ro) == FALSE
LockIsWrite(ro) == ~ro

\* sr_unlock_fd and close of the descriptor of thread t
sr_unlock_fd(lk, t) ==
    [writer |-> IF lk.writer = t THEN NoThread ELSE lk.writer, readers |-> lk.readers \ {t}]

\* the call of thread t returns rc; fd says whether its descriptor is
\* still open (and whatever lock it holds is still held)
PmReturn(t, rc, fd) == PwWith(t, [PwOf(t) EXCEPT !.pc = "idle", !.rc = rc, !.fd = fd])

PmOthersUnchanged ==
    /\ UNCHANGED <<np_subscriptions, np_dst_info, np_lock_leaked, np_halted,
                   np_subscribes, np_boot>>
    /\ UNCHANGED <<in_vars, out_vars, cm_vars, dm_vars, acc_vars, rp_vars, nt_vars, nc_vars>>

\* entry of the call and ac_set_user_identity before the first open();
\* the identity is switched while no other thread has it switched
PmCall(t, call) ==
    /\ PwOf(t).pc = "idle"
    /\ pm_calls < MaxPmCalls
    /\ (call.cred # NoCred) => (pm_identity = Engine)
    /\ pm_calls' = pm_calls + 1
    /\ pm_identity' = ac_set_user_identity(pm_identity, call.cred)
    /\ pw' = PwWith(t, [NoPmWork EXCEPT !.pc = "open", !.call = call,
                                                !.fd = PwOf(t).fd])
    /\ UNCHANGED <<persist, pm_flock, pw_last>>
    /\ PmOthersUnchanged

\* open(data_filename, O_RDONLY / O_RDWR)
PmOpen(t, res) ==
    /\ PwOf(t).pc = "open"
    /\ (res = "ENOENT") = ~persist[PmModule].exists
    /\ pw' = PwWith(t, [PwOf(t) EXCEPT !.pc = "unset", !.open = res, !.fd = (res = "OK") \/ @])
    /\ UNCHANGED <<persist, pm_flock, pm_identity, pm_calls, pw_last>>
    /\ PmOthersUnchanged

\* ac_unset_user_identity after the first open(), then the branch on errno
PmUnset(t) ==
    /\ PwOf(t).pc = "unset"
    /\ pm_identity' = IF PwOf(t).call.cred # NoCred
                       THEN ac_unset_user_identity(pm_identity) ELSE pm_identity
    /\ pw' = CASE PwOf(t).open = "OK" -> PwWith(t, [PwOf(t) EXCEPT !.pc = "lock"])
                [] PwOf(t).open = "ENOENT" /\ PwOf(t).call.ro
                     -> PmReturn(t, "DATA_MISSING", PwOf(t).fd)
                [] PwOf(t).open = "ENOENT" /\ ~PwOf(t).call.ro
                     -> PwWith(t, [PwOf(t) EXCEPT !.pc = "create_set"])
                [] PwOf(t).open = "EACCES" -> PmReturn(t, "UNAUTHORIZED", PwOf(t).fd)
                [] OTHER -> PmReturn(t, "INTERNAL", PwOf(t).fd)
    /\ UNCHANGED <<persist, pm_flock, pm_calls, pw_last>>
    /\ PmOthersUnchanged

\* ac_set_user_identity before the file is created
PmCreateSet(t) ==
    /\ PwOf(t).pc = "create_set"
    /\ (PwOf(t).call.cred # NoCred) => (pm_identity = Engine)
    /\ pm_identity' = ac_set_user_identity(pm_identity, PwOf(t).call.cred)
    /\ pw' = PwWith(t, [PwOf(t) EXCEPT !.pc = "create"])
    /\ UNCHANGED <<persist, pm_flock, pm_calls, pw_last>>
    /\ PmOthersUnchanged

\* open(data_filename, O_RDWR | O_CREAT, ...)
PmCreate(t, ok) ==
    /\ PwOf(t).pc = "create"
    /\ persist' = IF ok THEN [persist EXCEPT ![PmModule].exists = TRUE] ELSE persist
    /\ pw' = PwWith(t, [PwOf(t) EXCEPT !.pc = "create_unset", !.open = IF ok THEN "OK" ELSE "FAILED",
                         !.fd = ok \/ @])
    /\ UNCHANGED <<pm_flock, pm_identity, pm_calls, pw_last>>
    /\ PmOthersUnchanged

\* ac_unset_user_identity after the create
PmCreateUnset(t) ==
    /\ PwOf(t).pc = "create_unset"
    /\ pm_identity' = ac_unset_user_identity(pm_identity)
    /\ pw' = IF PwOf(t).open = "OK" THEN PwWith(t, [PwOf(t) EXCEPT !.pc = "lock"])
              ELSE PmReturn(t, "INTERNAL", PwOf(t).fd)
    /\ UNCHANGED <<persist, pm_flock, pm_calls, pw_last>>
    /\ PmOthersUnchanged

\* sr_lock_fd(fd, !read_only, true): waits until the lock can be taken
PmLock(t) ==
    /\ PwOf(t).pc = "lock"
    /\ LockFree(pm_flock, LockIsWrite(PwOf(t).call.ro))
    /\ pm_flock' = sr_lock_fd(pm_flock, t, LockIsWrite(PwOf(t).call.ro))
    /\ pw' = PwWith(t, [PwOf(t) EXCEPT !.pc = "parse"])
    /\ UNCHANGED <<persist, pm_identity, pm_calls, pw_last>>
    /\ PmOthersUnchanged

\* lyd_parse_fd and the end of pm_load_data_tree: a read-only load unlocks
\* and closes; otherwise the descriptor goes to the caller, who returns at
\* once when the load failed
PmParse(t, ok) ==
    /\ PwOf(t).pc = "parse"
    /\ IF PwOf(t).call.ro
       THEN /\ pm_flock' = sr_unlock_fd(pm_flock, t)
            /\ pw' = [PmReturn(t, IF ok THEN "OK" ELSE "INTERNAL", FALSE)
                          EXCEPT ![t].snap = persist[PmModule]]
       ELSE /\ pm_flock' = pm_flock
            /\ pw' = IF ok THEN PwWith(t, [PwOf(t) EXCEPT !.pc = "modify", !.snap = persist[PmModule]])
                      ELSE PmReturn(t, "INTERNAL", TRUE)
    /\ UNCHANGED <<persist, pm_identity, pm_calls, pw_last>>
    /\ PmOthersUnchanged

\* the change of the loaded tree in pm_save_persistent_data; on an error
\* the cleanup unlocks and closes
PmModify(t) ==
    /\ PwOf(t).pc = "modify"
    /\ LET c   == PwOf(t).call
           res == IF ~PwOf(t).snap.tree /\ ~c.add
                  THEN [file |-> PwOf(t).snap, rc |-> "DATA_MISSING"]
                  ELSE IF c.add THEN AddNode(PwOf(t).snap, c.xp)
                  ELSE [file |-> DeleteNodes(PwOf(t).snap, c.xp), rc |-> "OK"]
       IN  IF res.rc = "OK"
           THEN /\ pw' = PwWith(t, [PwOf(t) EXCEPT !.pc = "save", !.snap = res.file])
                /\ pm_flock' = pm_flock
           ELSE /\ pw' = PmReturn(t, res.rc, FALSE)
                /\ pm_flock' = sr_unlock_fd(pm_flock, t)
    /\ UNCHANGED <<persist, pm_identity, pm_calls, pw_last>>
    /\ PmOthersUnchanged

\* pm_save_data_tree (the file is emptied, then written) and the cleanup
PmSave(t, ok) ==
    /\ PwOf(t).pc = "save"
    /\ persist' = [persist EXCEPT ![PmModule] =
                      IF ok THEN PwOf(t).snap ELSE [NoFile EXCEPT !.exists = TRUE]]
    /\ pw_last' = IF ok
                   THEN [thread |-> t,
                         expect |-> pm_save_persistent_data(persist[PmModule], PwOf(t).call.add,
                                                            PwOf(t).call.xp, "OK").file,
                         got |-> PwOf(t).snap]
                   ELSE pw_last
    /\ pm_flock' = sr_unlock_fd(pm_flock, t)
    /\ pw' = PmReturn(t, IF ok THEN "OK" ELSE "INTERNAL", FALSE)
    /\ UNCHANGED <<pm_identity, pm_calls>>
    /\ PmOthersUnchanged

(* ------------------------------------------------------------------ *)
(* Accepting connections                                               *)
(* ------------------------------------------------------------------ *)
\* geteuid() of the server process, and the uids a peer can have
ServerUid == 1
NoUid == 0
PeerUids == {ServerUid, ServerUid + 1}
Modes == {"CM_MODE_DAEMON", "CM_MODE_LOCAL"}

\* the check of the peer's uid made in local (library) mode
UidAccepted_mut(mode, uid) == TRUE
UidAccepted(mode, uid) == (mode # "CM_MODE_LOCAL") \/ (uid = ServerUid)

\* cm_server_watcher_cb for one accepted descriptor c of a peer with the
\* given uid.  nbres, smres and wres are the results of cm_fd_set_nonblock,
\* sm_connection_start and cm_conn_watcher_init.
cm_server_watcher_cb(c, uid, nbres, smres, wres) ==
    /\ ~cm_crashed
    /\ conn_uid[c] = NoUid
    /\ \A d \in Conn : (d < c) => (conn_uid[d] # NoUid)
    /\ conn_uid' = [conn_uid EXCEPT ![c] = uid]
    /\ IF nbres # "OK"
       THEN \* close(clnt_fd); continue
            /\ smres = "OK" /\ wres = "OK"
            /\ acc_closed' = acc_closed \cup {c}
            /\ UNCHANGED <<cm_conns, acc_watched>>
       ELSE IF smres # "OK"
       THEN /\ wres = "OK"
            /\ acc_closed' = acc_closed \cup {c}
            /\ UNCHANGED <<cm_conns, acc_watched>>
       ELSE IF ~UidAccepted(cm_mode, uid)
       THEN \* sm_connection_stop; close(clnt_fd); continue
            /\ wres = "OK"
            /\ acc_closed' = acc_closed \cup {c}
            /\ UNCHANGED <<cm_conns, acc_watched>>
       ELSE IF wres # "OK"
       THEN \* close(clnt_fd); the connection stays in the Session Manager
            /\ cm_conns' = cm_conns \cup {c}
            /\ acc_closed' = acc_closed \cup {c}
            /\ UNCHANGED acc_watched
       ELSE /\ cm_conns' = cm_conns \cup {c}
            /\ acc_watched' = acc_watched \cup {c}
            /\ UNCHANGED acc_closed
    /\ cm_ev' = NoEvent
    /\ UNCHANGED <<sess_conn, rp_req_cnt, rp_resp_expected, request_queue, next_sid,
                   rp_work, rp_stops, arrived, responded, next_req, cm_crashed,
                   srv_sent, resp_fwd>>
    /\ UNCHANGED cm_mode
    /\ UNCHANGED <<in_vars, out_vars, dm_vars, np_vars, rp_vars, nt_vars, pw_vars, nc_vars>>

\* messages of a connection are read by cm_conn_read_cb, the callback of
\* the read watcher that cm_conn_watcher_init starts
WatchedSessionStart(c, startres, sendres, ub) ==
    /\ c \in acc_watched
    /\ ReqSessionStart(c, startres, sendres, ub)

WatchedPeerClose(c) ==
    /\ c \in acc_watched
    /\ PeerClose(c)

(* ------------------------------------------------------------------ *)
(* Initial state and specifications                                    *)
(* ------------------------------------------------------------------ *)
InitCommon ==
    /\ peer_sent = <<>>
    /\ sock_in = <<>>
    /\ in_buff = <<>>
    /\ dispatched = <<>>
    /\ in_conn = "open"
    /\ in_last = [pos |-> 0, size |-> 0, rc |-> "OK"]
    /\ out_buff = <<>>
    /\ wire = <<>>
    /\ appended = <<>>
    /\ write_watcher = FALSE
    /\ out_conn = "open"
    /\ out_last = [op |-> "none", rc |-> "OK", end |-> "NONE", before |-> <<>>]
    /\ cm_conns = {}
    /\ sess_conn = [s \in SessId |-> NoConn]
    /\ rp_req_cnt = [s \in SessId |-> 0]
    /\ rp_resp_expected = [s \in SessId |-> 0]
    /\ request_queue = [s \in SessId |-> <<>>]
    /\ next_sid = 1
    /\ rp_work = {}
    /\ rp_stops = [s \in SessId |-> 0]
    /\ arrived = [s \in SessId |-> <<>>]
    /\ responded = [s \in SessId |-> <<>>]
    /\ next_req = 1
    /\ cm_crashed = FALSE
    /\ cm_ev = NoEvent
    /\ srv_sent = [s \in SessId |-> 0]
    /\ resp_fwd = [s \in SessId |-> 0]
    /\ dm_sessions = {}
    /\ dm_next_sid = 1
    /\ disk = [m \in Modules |-> InitialTree]
    /\ disk_ts = [m \in Modules |-> 0]
    /\ copy = [s \in DmSess |-> [m \in Modules |-> NoCopy]]
    /\ oplog = [s \in DmSess |-> <<>>]
    /\ locks = [m \in Modules |-> NoSess]
    /\ dm_ops = 0
    /\ dm_last = NoDmEvent
    /\ np_subscriptions = <<>>
    /\ np_dst_info = [a \in Addr |-> <<>>]
    /\ persist = [m \in Modules |-> NoFile]
    /\ np_lock_leaked = FALSE
    /\ np_halted = FALSE
    /\ np_subscribes = 0
    /\ np_boot = [runs |-> 0, dropped |-> 0]
    /\ conn_uid = [c \in Conn |-> NoUid]
    /\ acc_watched = {}
    /\ acc_closed = {}
    /\ lists = [l \in ListNames |-> <<>>]
    /\ mv_last = NoListEdit
    /\ node_state = [n \in SchemaNodes |-> "DM_NODE_DISABLED"]
    /\ en_last = [target |-> NoNode, rc |-> "OK"]
    /\ rd_last = NoRead
    /\ np_last = NoNotify
    /\ pm_last = NoPmCall
    /\ pw = <<>>
    /\ pm_flock = [writer |-> NoThread, readers |-> {}]
    /\ pm_identity = Engine
    /\ pm_calls = 0
    /\ pw_last = [thread |-> NoThread, expect |-> NoFile, got |-> NoFile]
    /\ nc = <<>>
    /\ nc_calls = 0

\* the daemon runs the Connection Manager in daemon mode
Init == InitCommon /\ cm_mode = "CM_MODE_DAEMON"

\* lengths the peer puts into a preamble
PeerLens == {1, 2, SR_MAX_MSG_SIZE, 0, SR_MAX_MSG_SIZE + 1}

NextFraming ==
    \/ \E len \in PeerLens : PeerSend(len)
    \/ \E n \in 0..(MaxFrames * (SR_MSG_PREAM_SIZE + SR_MAX_MSG_SIZE + 1)),
          end \in {"EAGAIN", "EOF", "ERR"},
          failAt \in 0..MaxFrames,
          after \in {"closed", "crashed"} :
            cm_conn_read_cb(n, end, failAt, after)

SpecFraming == Init /\ [][NextFraming]_vars

NextOutput ==
    \/ \E len \in {1, SR_MAX_MSG_SIZE + 1},
          w \in 0..(MaxOutFrames * (SR_MSG_PREAM_SIZE + 1)),
          end \in {"DONE", "EAGAIN", "ERR"} :
            cm_msg_send_session(len, w, end)
    \/ \E w \in 0..(MaxOutFrames * (SR_MSG_PREAM_SIZE + 1)),
          end \in {"DONE", "EAGAIN", "ERR"} :
            cm_conn_write_cb(w, end)

SpecOutput == Init /\ [][NextOutput]_vars

Rcs == {"OK", "ERR"}
\* the session ids a session_stop request can name in its body
BodyIds == 1..(MaxSess + 1)
Ubs == {"none", "crash"}

\* messages arrive on the open connections, and the Request Processor
\* answers the requests it is working on
Next ==
    \/ \E c \in Conn : Accept(c)
    \/ \E c \in cm_conns : PeerClose(c)
    \/ \E c \in cm_conns, startres \in {"OK", "SM_ERR", "RP_ERR"}, sendres \in SendKinds, ub \in Ubs :
          ReqSessionStart(c, startres, sendres, ub)
    \/ \E c \in cm_conns, s \in SessId, rpres \in Rcs : ReqArrive(c, s, rpres)
    \/ \E c \in cm_conns, s \in SessId, body \in BodyIds, stopres \in Rcs, sendres \in SendKinds, ub \in Ubs :
          ReqSessionStop(c, s, body, stopres, sendres, ub)
    \/ \E w \in rp_work, sendres \in SendKinds, rpres \in Rcs, ub \in Ubs :
          RpRespond(w.sess, w.req, sendres, rpres, ub)
    \/ \E c \in cm_conns, s \in SessId, rpres \in Rcs : RespArrive(c, s, rpres)

Spec == Init /\ [][Next]_vars

\* connections, sessions and session_stop requests only
NextStop ==
    \/ \E c \in Conn : Accept(c)
    \/ \E c \in cm_conns, startres \in {"OK", "SM_ERR", "RP_ERR"}, sendres \in SendKinds, ub \in Ubs :
          ReqSessionStart(c, startres, sendres, ub)
    \/ \E c \in cm_conns, s \in SessId, body \in BodyIds, stopres \in Rcs, sendres \in SendKinds, ub \in Ubs :
          ReqSessionStop(c, s, body, stopres, sendres, ub)

SpecStop == Init /\ [][NextStop]_vars

\* the Request Processor answers every request it has accepted: each of its
\* worker threads ends the processing of a request with a call of cm_msg_send
RpAnswers ==
    \E s \in SessId, r \in 1..MaxReq, sendres \in SendKinds, rpres \in Rcs, ub \in Ubs :
        RpRespond(s, r, sendres, rpres, ub)

SpecLive == Init /\ [][Next]_vars /\ WF_vars(RpAnswers)

\* the sequencer with requests sent by the Request Processor to the clients
NextResp ==
    \/ Next
    \/ \E s \in SessId, sendres \in SendKinds, rpres \in Rcs, ub \in Ubs :
          RpSendRequest(s, sendres, rpres, ub)

SpecResp == Init /\ [][NextResp]_vars

\* the Connection Manager is started in either mode
InitAccept == InitCommon /\ cm_mode \in Modes

NextAccept ==
    \/ \E c \in Conn, uid \in PeerUids, nbres \in Rcs, smres \in Rcs, wres \in Rcs :
          cm_server_watcher_cb(c, uid, nbres, smres, wres)
    \/ \E c \in Conn, startres \in {"OK", "SM_ERR", "RP_ERR"}, sendres \in SendKinds, ub \in Ubs :
          WatchedSessionStart(c, startres, sendres, ub)
    \/ \E c \in Conn : WatchedPeerClose(c)

SpecAccept == InitAccept /\ [][NextAccept]_vars

NextDM ==
    \/ \E s \in DmSess : dm_session_start(s)
    \/ \E s \in DmSess : dm_session_stop(s)
    \/ \E s \in DmSess, m \in Modules : GetItem(s, m)
    \/ \E s \in DmSess, e \in Edits : EditItem(s, e)
    \/ \E s \in DmSess : dm_discard_changes(s)
    \/ \E s \in DmSess : SessionRefresh(s)
    \/ \E s \in DmSess, failAt \in 0..MaxModules : dm_commit(s, failAt)

SpecDM == Init /\ [][NextDM]_vars

\* two sessions editing the same module, with commits and refreshes
MergeModule == 1
MergeEdits == {e \in Edits : e.mod = MergeModule}

NextMerge ==
    \/ \E s \in DmSess : dm_session_start(s)
    \/ \E s \in DmSess, e \in MergeEdits : EditItemWithin(s, e, MaxMergeOps)
    \/ \E s \in DmSess : SessionRefresh(s)
    \/ \E s \in DmSess, failAt \in 0..1 : dm_commit(s, failAt)

SpecMerge == Init /\ [][NextMerge]_vars

\* keys of the entries made in the list that is not user-ordered
SysKeys == {1, 2}

NextMove ==
    \/ \E l \in ListNames, k \in Keys : UserOrdered(l) /\ SetListEntry(l, k)
    \/ \E l \in ListNames, k \in SysKeys : ~UserOrdered(l) /\ SetListEntry(l, k)
    \/ \E l \in ListNames, k \in Keys : DeleteListEntry(l, k)
    \/ \E l \in ListNames, k \in Keys, dir \in Directions : MoveItem(l, k, dir)

SpecMove == Init /\ [][NextMove]_vars

NextEnable ==
    \E match \in SchemaNodes \cup {NoNode}, valres \in {"OK", "UNKNOWN_MODEL"},
       failAt \in 0..MaxSetCalls :
          EnableXpath(match, valres, failAt)

SpecEnable == Init /\ [][NextEnable]_vars

\* saves and reads of the enabled features, reads of the subscriptions,
\* and the module-change subscribes of one subscriber
NextPersist ==
    \/ \E m \in Modules, f \in FeatureNames, enable \in BOOLEAN, loadrc \in LoadRcs :
          SaveFeatureState(m, f, enable, loadrc)
    \/ \E m \in Modules, openrc \in LoadRcs : GetFeatures(m, openrc)
    \/ \E m \in Modules, openrc \in LoadRcs : GetSubscriptions(m, openrc)
    \/ Accept(1)
    \/ \E m \in Modules : np_notification_subscribe(1, 1, "module_change", m, "OK", "none")

SpecPersist == Init /\ [][NextPersist]_vars

\* concurrent Persistence Manager calls on the persist file of one module
NextNpConc ==
    \/ \E t \in NpThreads, call \in NpCallKinds : NpcCall(t, call)
    \/ \E t \in NpThreads : NpcInsertSearch(t)
    \/ \E t \in NpThreads, dup \in {"OK", "INTERNAL"} : NpcInsertUpdate(t, dup)
    \/ \E t \in NpThreads : NpcSubscribe(t)
    \/ \E t \in NpThreads : NpcUnsubScan(t)
    \/ \E t \in NpThreads : NpcUnsubRemove(t)

SpecNpConc == Init /\ [][NextNpConc]_vars

NextPmConc ==
    \/ \E t \in PmThreads, call \in PmCallKinds : PmCall(t, call)
    \/ \E t \in PmThreads, res \in {"OK", "ENOENT", "EACCES"} : PmOpen(t, res)
    \/ \E t \in PmThreads : PmUnset(t)
    \/ \E t \in PmThreads : PmCreateSet(t)
    \/ \E t \in PmThreads, ok \in BOOLEAN : PmCreate(t, ok)
    \/ \E t \in PmThreads : PmCreateUnset(t)
    \/ \E t \in PmThreads : PmLock(t)
    \/ \E t \in PmThreads, ok \in BOOLEAN : PmParse(t, ok)
    \/ \E t \in PmThreads : PmModify(t)
    \/ \E t \in PmThreads, ok \in BOOLEAN : PmSave(t, ok)

SpecPmConc == Init /\ [][NextPmConc]_vars

NextGet ==
    \/ \E s \in DmSess : dm_session_start(s)
    \/ \E s \in DmSess, e \in MergeEdits : EditItem(s, e)
    \/ \E api \in {"get_item", "get_items"}, s \in DmSess,
          m \in Modules \cup {UnknownModule}, elem \in PathElems :
             GetItemXpath(api, s, m, elem)

SpecGet == Init /\ [][NextGet]_vars

NextLock ==
    \/ \E s \in DmSess : dm_session_start(s)
    \/ \E s \in DmSess : dm_session_stop(s)
    \/ \E s \in DmSess, m \in Modules : dm_lock_module(s, m)
    \/ \E s \in DmSess, m \in Modules : dm_unlock_module(s, m)
    \/ \E s \in DmSess : dm_lock_datastore(s)
    \/ \E s \in DmSess : dm_unlock_datastore(s)

SpecLock == Init /\ [][NextLock]_vars

Events == {"module_change", "module_install"}

NextNP ==
    \/ \E c \in Conn : Accept(c)
    \/ \E c \in Conn : PeerClose(c)
    \/ \E a \in Addr, id \in DstIds, ev \in Events, m \in Modules \cup {NoModule},
          loadrc \in LoadRcs, ub \in Ubs :
            np_notification_subscribe(a, id, ev, m, loadrc, ub)
    \/ \E a \in Addr, id \in DstIds, ev \in Events, m \in Modules \cup {NoModule},
          loadrc \in LoadRcs, ub \in Ubs :
            np_notification_unsubscribe(a, id, ev, m, loadrc, ub)
    \/ \E a \in Addr, failAt \in 0..MaxModules, ub \in Ubs :
          np_unsubscribe_destination(a, failAt, ub)
    \/ \E m \in Modules : np_module_change_notify(m)
    \/ \E m \in Modules : np_module_install_notify(m)
    \/ \E a \in Addr, id \in DstIds, m \in Modules, unsub \in BOOLEAN :
          BlockedOnLock(a, id, m, unsub)

SpecNP == Init /\ [][NextNP]_vars

\* the notify operations with the subscribes that fill the subscription
\* table and the persist files
\* two subscribers, each with one destination id
NotifySubscribers == {1, 2}

NextNotify ==
    \/ \E c \in NotifySubscribers : Accept(c)
    \/ \E a \in NotifySubscribers, ev \in Events, m \in Modules \cup {NoModule} :
            np_notification_subscribe(a, 1, ev, m, "OK", "none")
    \/ \E m \in Modules : np_module_change_notify(m)
    \/ \E m \in Modules : np_module_install_notify(m)

SpecNotify == Init /\ [][NextNotify]_vars

(* ------------------------------------------------------------------ *)
(* Claims about framing and the output buffer                          *)
(* ------------------------------------------------------------------ *)

\* every byte the peer has written so far, frame after frame
StreamBytes ==
    Flatten([i \in 1..Len(peer_sent) |-> FrameBytes(Len(peer_sent[i]), peer_sent[i])])

\* the bytes of the frames dispatched so far
DispatchedBytes ==
    Flatten([i \in 1..Len(dispatched) |-> FrameBytes(Len(dispatched[i]), dispatched[i])])

\* C3: stream reassembly -- the payloads dispatched are, in order, the frames
\* the peer sent, and on an open connection the bytes of everything not yet
\* dispatched are still held (input buffer followed by the socket).
C3_StreamReassembly ==
    /\ IsPrefix(dispatched, peer_sent)
    /\ (in_conn = "open") => (DispatchedBytes \o in_buff \o sock_in = StreamBytes)

\* C4: a frame is dispatched only when it is wholly in the buffer: the payload
\* handed over consists of received bytes only and the read position never
\* passes the number of bytes received.
C4_WholeFrameOnly ==
    /\ in_last.pos <= in_last.size
    /\ \A i \in 1..Len(dispatched) : \A j \in 1..Len(dispatched[i]) :
           dispatched[i][j] # STALE

\* C5: backpressure keeps data -- on an open connection the bytes accepted by
\* the kernel followed by the bytes still buffered are exactly the bytes ever
\* appended, and a flush that ended with EAGAIN leaves the write watcher armed.
C5_BackpressureKeepsData ==
    (out_conn = "open") =>
        /\ wire \o out_buff = appended
        /\ (out_last.end = "EAGAIN") => write_watcher

(* ------------------------------------------------------------------ *)
(* Sequencer properties                                                *)
(* ------------------------------------------------------------------ *)
\* position of request r in the arrival order of session s (0: not there)
ArrivalPos(s, r) ==
    IF \E i \in 1..Len(arrived[s]) : arrived[s][i] = r
    THEN CHOOSE i \in 1..Len(arrived[s]) : arrived[s][i] = r
    ELSE 0

\* C1: for every session the responses sent to the client are in the order
\* in which the corresponding requests arrived (session-stop included).
C1_SequencerFIFO ==
    \A s \in SessId :
      \A i, j \in 1..Len(responded[s]) :
        (i < j) => (ArrivalPos(s, responded[s][i]) < ArrivalPos(s, responded[s][j]))

\* a step in which request cm_ev'.req arrives for a session of its own
\* connection while that session has a request in the Request Processor
ArrivesWhileBusy(s) ==
    /\ next_req' = next_req + 1
    /\ cm_ev'.op = "req"
    /\ cm_ev'.sess = s
    /\ cm_ev'.rc # "INVAL_ARG"
    /\ rp_req_cnt[s] = 1

LockAttempt(m) ==
    \/ dm_last'.op = "lock_module" /\ dm_last'.mod = m
    \/ dm_last'.op = "lock_datastore"

\* C7: while a session holds the lock of a module, every lock-module on
\* that module and every lock-datastore from another session returns
\* Locked and grants nothing; a lock held by a session is released when the
\* session unlocks or is stopped, and a lock-module on a free module succeeds.
C7_LockExclusivity ==
    [][/\ \A b \in DmSess, m \in Modules :
            (dm_last'.sess = b /\ LockAttempt(m) /\ locks[m] \notin {NoSess, b})
               => (dm_last'.rc = "LOCKED" /\ locks' = locks)
       /\ \A a \in DmSess, m \in Modules :
            (/\ dm_last'.sess = a
             /\ locks[m] = a
             /\ \/ a \notin dm_sessions'
                \/ dm_last'.op = "unlock_datastore"
                \/ dm_last'.op = "unlock_module" /\ dm_last'.mod = m)
               => (locks'[m] = NoSess)
       /\ \A b \in DmSess, m \in Modules :
            (/\ dm_last'.sess = b
             /\ dm_last'.op = "lock_module" /\ dm_last'.mod = m
             /\ locks[m] = NoSess)
               => (dm_last'.rc = "OK" /\ locks'[m] = b)]_vars

\* a lock-module has just been refused because another session holds the module
C7_Witness ==
    /\ dm_last.op = "lock_module"
    /\ dm_last.rc = "LOCKED"
    /\ locks[dm_last.mod] \in dm_sessions \ {dm_last.sess}

\* C8: what a session reads changes only by a call of that session (an
\* edit, a refresh, a discard, a commit of its own), or, for a module the
\* session has not loaded, by a successful commit of another session; an
\* edit in another session's working copy is never observable.
C8_SessionIsolation ==
    [][\A b \in DmSess, m \in Modules :
          (b \in dm_sessions /\ b \in dm_sessions' /\ ReadView(b, m)' # ReadView(b, m))
             => \/ dm_last'.sess = b
                \/ /\ dm_last'.op = "commit" /\ dm_last'.rc = "OK"
                   /\ ~copy[b][m].loaded]_vars

\* a session has committed a change of a module while another session
\* holds an unmodified working copy of it, which still shows the old content
C8_Witness ==
    /\ dm_last.op = "commit"
    /\ dm_last.rc = "OK"
    /\ \E b \in dm_sessions \ {dm_last.sess}, m \in Modules :
         /\ copy[b][m].loaded
         /\ ~copy[b][m].modified
         /\ copy[b][m].tree # disk[m]
         /\ copy[dm_last.sess][m].tree = disk[m]
         /\ copy[dm_last.sess][m].ts = disk_ts[m]

(* ------------------------------------------------------------------ *)
(* Notification Processor properties                                   *)
(* ------------------------------------------------------------------ *)
\* the modules whose persist file holds a subscription from address a
SubscribedModules(a) ==
    {m \in Modules : \E i \in 1..Len(persist[m].subs) : persist[m].subs[i].addr = a}

\* C9: once a subscriber has disconnected and the close handling has run,
\* no persist file holds a subscription with the subscriber's address.
C9_DestinationLossPurges ==
    \A a \in Addr : (a \notin cm_conns) => (SubscribedModules(a) = {})

\* C10: the modules recorded in the destination-info index for an address
\* are exactly the modules whose persist file holds a subscription from it.
C10_DstInfoIndex ==
    \A a \in Addr : Range(np_dst_info[a]) = SubscribedModules(a)

(* ------------------------------------------------------------------ *)
(* Subscriptions across a restart of the engine                        *)
(* ------------------------------------------------------------------ *)
\* the events a subscriber can name
AllEvents == Events \cup {"feature_enable"}

\* the subscriber whose subscriptions are followed across the restart: the
\* client on the first connection
Subscriber == 1

\* subscribe, unsubscribe and notify calls of one subscriber, and restarts
\* of the engine
NextDurable ==
    \/ Accept(Subscriber)
    \/ PeerClose(Subscriber)
    \/ \E id \in DstIds, ev \in AllEvents, m \in Modules \cup {NoModule},
          loadrc \in LoadRcs, ub \in Ubs :
            np_notification_subscribe(Subscriber, id, ev, m, loadrc, ub)
    \/ \E id \in DstIds, ev \in AllEvents, m \in Modules \cup {NoModule},
          loadrc \in LoadRcs, ub \in Ubs :
            np_notification_unsubscribe(Subscriber, id, ev, m, loadrc, ub)
    \/ \E m \in Modules : np_module_change_notify(m)
    \/ np_restart

SpecDurable == Init /\ [][NextDurable]_vars

\* C11: a module-change subscription lives in the persist file of its
\* module and never in the in-memory table, and what get_subscriptions
\* returns for a module is the same after a restart as before it; a
\* module-install or feature-enable subscription lives in the in-memory
\* table and never in a persist file, and the table is empty after a restart.
C11_SubscriptionDurability ==
    /\ [](\A i \in 1..Len(np_subscriptions) : np_subscriptions[i].ev # "module_change")
    /\ [][/\ (np_boot'.runs # np_boot.runs)
              => /\ \A m \in Modules :
                      pm_get_subscriptions(persist'[m]) = pm_get_subscriptions(persist[m])
                 /\ np_subscriptions' = <<>>
          /\ (np_subscriptions' # np_subscriptions) => (persist' = persist)
          /\ (persist' # persist) => (np_subscriptions' = np_subscriptions)]_vars

\* the engine has restarted while a persist file held a module-change
\* subscription and the in-memory table held a transient one: the first is
\* still returned, the second is gone
C11_Witness ==
    /\ np_boot.runs = 1
    /\ np_boot.dropped > 0
    /\ np_subscriptions = <<>>
    /\ \E m \in Modules : pm_get_subscriptions(persist[m]) # <<>>

(* ------------------------------------------------------------------ *)
(* Connection close, session binding                                   *)
(* ------------------------------------------------------------------ *)
\* C12: when a connection is closed, the connection and every session it
\* owned leave the registry, rp_session_stop has been called exactly once
\* for each of those sessions, and the sessions of other connections keep
\* their owner, counters and queue.
C12_CloseCascade ==
    [][\A c \in Conn :
         (c \in cm_conns /\ c \notin cm_conns')
            => \A s \in SessId :
                 CASE sess_conn[s] = c ->
                        sess_conn'[s] = NoConn /\ rp_stops'[s] = 1
                   [] sess_conn[s] = NoConn ->
                        \* not registered, or started by the message whose
                        \* handling closes the connection
                        sess_conn'[s] = NoConn /\ rp_stops'[s] <= 1
                   [] OTHER ->
                        /\ sess_conn'[s] = sess_conn[s]
                        /\ rp_req_cnt'[s] = rp_req_cnt[s]
                        /\ rp_resp_expected'[s] = rp_resp_expected[s]
                        /\ request_queue'[s] = request_queue[s]
                        /\ rp_stops'[s] = rp_stops[s]]_vars

\* a message naming session s arrives on connection c in this step
MsgArrives(c, s) ==
    /\ cm_ev'.op \in {"req", "stop", "resp"}
    /\ cm_ev'.conn = c
    /\ cm_ev'.sess = s
    /\ (cm_ev'.op = "resp") \/ (next_req' # next_req)

\* C13: a message that arrives on one connection and names a session owned
\* by another connection is not forwarded to the Request Processor, is not
\* queued on that session and does not stop it.
C13_SessionBinding ==
    [][\A c \in Conn, s \in SessId :
         (MsgArrives(c, s) /\ c \in cm_conns /\ sess_conn[s] \notin {NoConn, c})
            => /\ rp_work' = rp_work
               /\ resp_fwd' = resp_fwd
               /\ request_queue'[s] = request_queue[s]
               /\ rp_req_cnt'[s] = rp_req_cnt[s]
               /\ sess_conn'[s] = sess_conn[s]
               /\ rp_stops'[s] = rp_stops[s]]_vars

\* a request naming a session of another, still open connection has just
\* been refused
C13_Witness ==
    /\ cm_ev.op \in {"req", "stop"}
    /\ cm_ev.rc = "INVAL_ARG"
    /\ sess_conn[cm_ev.sess] \in cm_conns \ {cm_ev.conn}

(* ------------------------------------------------------------------ *)
(* Responses and queue progress                                        *)
(* ------------------------------------------------------------------ *)
\* C14: every request received for a session gets exactly one response on
\* that session: no response is sent twice, and a request that has arrived
\* is eventually answered unless its session is destroyed first.
C14_OneResponsePerRequest ==
    /\ [](\A s \in SessId : \A i, j \in 1..Len(responded[s]) :
             (responded[s][i] = responded[s][j]) => (i = j))
    /\ \A s \in SessId, r \in 1..MaxReq :
         (r \in Range(arrived[s]))
            ~> (r \in Range(responded[s]) \/ sess_conn[s] = NoConn)

\* C15: a request on the pending queue of a session is eventually taken
\* from the queue and forwarded unless the session is destroyed first; and
\* when a response is sent, rp_req_cnt reaches 0 and the queue is not
\* empty, the head leaves the queue and, the Request Processor accepting
\* it, rp_req_cnt is 1 again.
C15_QueueProgress ==
    /\ \A s \in SessId, r \in 1..MaxReq :
         (r \in Range(request_queue[s]))
            ~> (r \notin Range(request_queue[s]) \/ sess_conn[s] = NoConn)
    /\ [][\A s \in SessId :
            (/\ Len(responded'[s]) = Len(responded[s]) + 1
             /\ cm_ev'.op = "rpresp"
             /\ rp_req_cnt[s] = 1
             /\ request_queue[s] # <<>>
             /\ sess_conn'[s] # NoConn)
               => /\ request_queue'[s] = Tail(request_queue[s])
                  /\ (rp_req_cnt'[s] = 1)
                       <=> ([sess |-> s, req |-> Head(request_queue[s])] \in rp_work')]_vars

(* ------------------------------------------------------------------ *)
(* Responses from clients, responses for destroyed sessions            *)
(* ------------------------------------------------------------------ *)
\* C16: a response that arrives from the client of a session is handed to
\* the Request Processor when rp_resp_expected of the session is greater
\* than 0, and is refused with an error and not handed over when it is 0.
C16_ExpectedResponse ==
    [][\A c \in Conn, s \in SessId :
         (/\ cm_ev'.op = "resp" /\ cm_ev'.conn = c /\ cm_ev'.sess = s
          /\ c \in cm_conns /\ sess_conn[s] = c)
            => IF rp_resp_expected[s] > 0
               THEN \/ resp_fwd'[s] = resp_fwd[s] + 1
                    \/ cm_ev'.rc \in Rcs
               ELSE resp_fwd' = resp_fwd /\ cm_ev'.rc = "INVAL_ARG"]_vars

\* C17: rp_resp_expected of a session is the number of requests sent to its
\* client and not answered yet, and the responses handed to the Request
\* Processor are never more than the requests sent.
C17_RespExpectedCount ==
    \A s \in SessId :
      (sess_conn[s] # NoConn)
         => /\ rp_resp_expected[s] = srv_sent[s] - resp_fwd[s]
            /\ resp_fwd[s] <= srv_sent[s]

BadLen(n) == (n <= 0) \/ (n > SR_MAX_MSG_SIZE)

\* the unprocessed input starts with a whole preamble that holds a bad length
BadHead(buff) ==
    /\ Len(buff) >= SR_MSG_PREAM_SIZE
    /\ BadLen(sr_buff_to_uint32(SubSeq(buff, 1, SR_MSG_PREAM_SIZE)))

\* nothing is dispatched from the first frame with a bad length onwards
NothingPastBadFrame ==
    \A k \in 1..Len(peer_sent) : BadLen(Len(peer_sent[k])) => (Len(dispatched) < k)

\* a frame of exactly SR_MAX_MSG_SIZE bytes at the head of the input is dispatched
MaxSizeAccepted ==
    \A k \in 1..Len(peer_sent) :
      (Len(peer_sent[k]) = SR_MAX_MSG_SIZE)
         => LET res == cm_conn_in_buff_process(
                           FrameBytes(SR_MAX_MSG_SIZE, peer_sent[k]), 0)
            IN  res.rc = "OK" /\ res.out = <<peer_sent[k]>>

\* C18: when the length prefix at the head of the unprocessed input is 0 or
\* greater than SR_MAX_MSG_SIZE, neither that frame nor anything after it is
\* dispatched and the connection does not stay open; a frame of exactly
\* SR_MAX_MSG_SIZE bytes is accepted.
C18_LengthBounds ==
    /\ NothingPastBadFrame
    /\ (in_conn = "open") => ~BadHead(in_buff)
    /\ MaxSizeAccepted

\* a writable event that drains the buffer stops the watcher and keeps the
\* connection open
DrainStopsWatcher ==
    (out_last.op = "write_cb" /\ out_last.end = "DONE")
        => (~write_watcher /\ out_conn = "open" /\ out_buff = <<>>)

\* C19: after every flush on a connection that stays open the write watcher
\* is started if and only if the output buffer still holds unsent bytes; a
\* writable event that drains the buffer leaves the watcher stopped and the
\* connection open.
C19_WriteWatcherState ==
    /\ (out_conn = "open" /\ out_last.op # "none" /\ out_last.rc = "OK")
          => (write_watcher <=> (out_buff # <<>>))
    /\ DrainStopsWatcher

(* ------------------------------------------------------------------ *)
(* Local mode                                                          *)
(* ------------------------------------------------------------------ *)
\* C21: in local (library) mode a peer whose uid differs from the uid of the
\* server never gets watchers and never owns a session: after the accept
\* its connection is not in the registry and its descriptor is closed.
C21_LocalModeUidCheck ==
    \A c \in Conn :
      (cm_mode = "CM_MODE_LOCAL" /\ conn_uid[c] \notin {NoUid, ServerUid})
         => /\ c \notin acc_watched
            /\ c \in acc_closed
            /\ c \notin cm_conns
            /\ \A s \in SessId : sess_conn[s] # c

\* local mode: a peer with another uid has connected, and a peer with the
\* server's uid has connected and started a session
C21_Witness ==
    /\ cm_mode = "CM_MODE_LOCAL"
    /\ \E c \in Conn : conn_uid[c] \notin {NoUid, ServerUid}
    /\ \E d \in Conn : conn_uid[d] = ServerUid /\ d \in acc_watched
                        /\ \E s \in SessId : sess_conn[s] = d

(* ------------------------------------------------------------------ *)
(* Merge after a concurrent commit, discard                            *)
(* ------------------------------------------------------------------ *)
\* operations applied in order on a tree, those that fail being left out:
\* the tree obtained and the operations that applied
RECURSIVE MergeOps(_, _)
MergeOps(tree, ops) ==
    IF ops = <<>> THEN [tree |-> tree, kept |-> <<>>]
    ELSE LET r    == ApplyOp(tree, Head(ops))
             rest == MergeOps(r.tree, Tail(ops))
         IN  IF r.rc = "OK" THEN [rest EXCEPT !.kept = <<Head(ops)>> \o @] ELSE rest

\* every loaded working copy of session a has the timestamp of its data file
AllFresh(a) == \A m \in Modules : copy[a][m].loaded => (copy[a][m].ts = disk_ts[m])

C23_Discard ==
    [][\A s \in DmSess :
         (dm_last'.op = "discard" /\ dm_last'.sess = s)
            => /\ \A m \in Modules : ReadView(s, m)' = disk'[m]
               /\ oplog'[s] = <<>>
               /\ disk' = disk
               /\ ModifiedMods(s)' = {}
               /\ dm_commit_result(s, 0)'.rc = "OK"
               /\ dm_commit_result(s, 0)'.disk = disk']_vars

\* a session has discarded a modified working copy
C23_Witness ==
    /\ dm_last.op = "discard"
    /\ dm_last.nmods >= 1

(* ------------------------------------------------------------------ *)
(* Moving list entries                                                 *)
(* ------------------------------------------------------------------ *)
\* move-up followed by move-down on the same entry restores the order of
\* the whole list, for every entry of the list
C24_MoveRoundTripAnyEntry ==
    mv_last.after_up => (lists[mv_last.list] = mv_last.orig)

\* C24: move-up followed by move-down on the same entry of a user-ordered
\* list restores the position of the entry and the order of the whole
\* list, for every entry that was not the first one of the list (and for
\* the only entry of a list of one).
C24_MoveRoundTrip ==
    (/\ mv_last.after_up
     /\ \/ Head(mv_last.orig) # mv_last.key
        \/ Len(mv_last.orig) = 1)
       => /\ mv_last.rc = "OK"
          /\ lists[mv_last.list] = mv_last.orig

\* an entry that is neither first nor last has been moved up and then down
C24_Witness ==
    /\ mv_last.after_up
    /\ Len(mv_last.orig) >= 3
    /\ PosOf(mv_last.orig, mv_last.key) = 2
    /\ mv_last.before # mv_last.orig

\* the list without the entry with key k
Others(lst, k) == SelectSeq(lst, LAMBDA x : x # k)

\* C25: on a user-ordered list move-down swaps the addressed entry with its
\* next sibling and move-up with its previous sibling, the relative order
\* of all other entries staying as it was; at the last / first position the
\* move succeeds and changes nothing (from [1, 2, 3], moving 1 down and
\* then 3 up gives [2, 3, 1]); on a list that is not user-ordered the move
\* returns INVAL_ARG and changes nothing.
C25_MoveSemantics ==
    /\ (mv_last.op = "move") =>
         LET old == mv_last.before
             new == lists[mv_last.list]
             k   == mv_last.key
         IN  IF ~UserOrdered(mv_last.list)
             THEN mv_last.rc = "INVAL_ARG" /\ new = old
             ELSE (k \in Range(old)) =>
                   LET i == PosOf(old, k)
                       j == IF mv_last.dir = "SR_MOVE_DOWN" THEN i + 1 ELSE i - 1
                   IN  /\ mv_last.rc = "OK"
                       /\ Len(new) = Len(old)
                       /\ Others(new, k) = Others(old, k)
                       /\ IF j \in 1..Len(old)
                          THEN new[j] = k /\ new[i] = old[j]
                          ELSE new = old
    /\ rp_dt_move_list(rp_dt_move_list(<<1, 2, 3>>, TRUE, 1, "SR_MOVE_DOWN").lst,
                       TRUE, 3, "SR_MOVE_UP").lst = <<2, 3, 1>>

\* the moves of cl_move_item_test have been made: from [1, 2, 3], 1 was
\* moved down and 3 has just been moved up
C25_Witness ==
    /\ mv_last.op = "move" /\ mv_last.dir = "SR_MOVE_UP" /\ mv_last.key = 3
    /\ mv_last.before = <<2, 1, 3>>
    /\ lists["user"] = <<2, 3, 1>>

(* ------------------------------------------------------------------ *)
(* Enabling nodes in the running datastore                             *)
(* ------------------------------------------------------------------ *)
\* C26: after rp_dt_enable_xpath has succeeded the target is enabled with
\* children when it is a container or a list and enabled otherwise, every
\* ancestor of the target is enabled, the keys of every list ancestor are
\* visible, and the target and all its ancestors are visible in the
\* running datastore.
C26_Enablement ==
    (en_last.rc = "OK" /\ en_last.target # NoNode)
       => LET t == en_last.target
          IN  /\ node_state[t] = IF NodeType(t) \in {"LYS_CONTAINER", "LYS_LIST"}
                                 THEN "DM_NODE_ENABLED_WITH_CHILDREN"
                                 ELSE "DM_NODE_ENABLED"
              /\ \A a \in Range(Ancestors(t)) :
                    /\ dm_is_node_enabled(node_state, a)
                    /\ dm_is_enabled_check_recursively(node_state, a)
                    /\ \A k \in Range(ListKeys(a)) :
                          dm_is_enabled_check_recursively(node_state, k)
              /\ dm_is_enabled_check_recursively(node_state, t)

(* ------------------------------------------------------------------ *)
(* Classification of read errors                                       *)
(* ------------------------------------------------------------------ *)
\* C27: a get-item / get-items on a path of an unknown module returns
\* UNKNOWN_MODEL, on a known module with a path element that the schema
\* does not have BAD_ELEMENT, on a schema-valid path without data
\* NOT_FOUND, and no value is returned in any of the three cases.
C27_ReadErrors ==
    (rd_last.api # "none")
       => /\ (rd_last.mod \notin Modules)
                => (rd_last.rc = "UNKNOWN_MODEL" /\ ~rd_last.value)
          /\ (rd_last.mod \in Modules /\ rd_last.elem \notin Items)
                => (rd_last.rc = "BAD_ELEMENT" /\ ~rd_last.value)
          /\ (rd_last.mod \in Modules /\ rd_last.elem \in Items
                 /\ rd_last.elem \notin rd_last.view)
                => (rd_last.rc = "NOT_FOUND" /\ ~rd_last.value)

(* ------------------------------------------------------------------ *)
(* Notification fan-out                                                *)
(* ------------------------------------------------------------------ *)
\* a step of one of the notify operations
NotifyStep ==
    \E m \in Modules : np_module_change_notify(m) \/ np_module_install_notify(m)

\* every subscription up to the first one whose message could not be
\* built was handed to cm_msg_send, whatever the earlier sends returned
SentToAll ==
    (np_last.op # "none")
       => \A j \in 1..Len(np_last.outs) :
             (\A k \in 1..j : np_last.outs[k] \in {"OK", "SEND_FAILED"})
                => (j \in np_last.attempted)

\* C28: a failed send to one subscriber does not stop the notify operation:
\* delivery to every later matching subscription is still attempted; and
\* the subscription table and the persist files are the same after a
\* notify operation as before it.
C28_FanOut ==
    /\ []SentToAll
    /\ [][NotifyStep => (np_subscriptions' = np_subscriptions /\ persist' = persist)]_vars

C28_Witness ==
    /\ np_last.op # "none"
    /\ \E i, j \in 1..Len(np_last.outs) :
          /\ i < j
          /\ np_last.outs[i] = "SEND_FAILED"
          /\ j \in np_last.attempted

(* ------------------------------------------------------------------ *)
(* Persist files: features and reads                                   *)
(* ------------------------------------------------------------------ *)
\* the save asks for the state the feature already has
AlreadySo ==
    /\ pm_last.op = "save_feature"
    /\ pm_last.enable = (pm_last.feature \in pm_last.before.features)

\* C29: enabling a feature that is already enabled, or disabling one that
\* is not enabled (also when the module has no persist file yet), succeeds
\* and leaves the persisted set of enabled features as it was.
C29_FeatureIdempotent ==
    AlreadySo
       => /\ pm_last.rc \in {"OK", "UNAUTHORIZED"}
          /\ persist[pm_last.mod].features = pm_last.before.features

\* C30: pm_get_features and pm_get_subscriptions of a module whose persist
\* file does not exist succeed with zero entries and create no file.
C30_ReadMissingFile ==
    (pm_last.op \in {"get_features", "get_subscriptions"} /\ ~pm_last.before.exists)
       => /\ pm_last.rc \in {"OK", "UNAUTHORIZED"}
          /\ pm_last.cnt = 0
          /\ ~persist[pm_last.mod].exists

(* ------------------------------------------------------------------ *)
(* Persistence Manager: locking, identity, descriptors                 *)
(* ------------------------------------------------------------------ *)
\* thread t is between the load and the end of the save of a mutation
InReadModifyWrite(t) == ~PwOf(t).call.ro /\ PwOf(t).pc \in {"parse", "modify", "save"}

C32_IdentityBalanced ==
    (pm_identity # Engine)
       => \E t \in PmThreads :
             /\ ~PwOf(t).call.ro
             /\ PwOf(t).call.cred = pm_identity
             /\ PwOf(t).pc \in {"open", "unset", "create", "create_unset"}

C32_Witness ==
    /\ pm_identity = Engine
    /\ \E t \in PmThreads :
          /\ PwOf(t).pc = "lock" /\ PwOf(t).call.cred = Caller
          /\ PwOf(t).open = "OK" /\ persist[PmModule].exists

\* C36: a mutation that has returned holds no lock on the persist file
\* and has no descriptor of it open, whatever its result.
C36_LockAndFdReleased ==
    \A t \in PmThreads :
       (PwOf(t).pc = "idle")
          => (~PwOf(t).fd /\ pm_flock.writer # t /\ t \notin pm_flock.readers)

(* ------------------------------------------------------------------ *)
(* Connection Manager: stranded requests, destroyed objects            *)
(* ------------------------------------------------------------------ *)
\* C33: a live session with a request waiting in its queue has at least
\* one request in processing, so that a response will come and take the
\* waiting request out of the queue.
C33_NoStrandedRequest ==
    \A s \in SessId :
       (sess_conn[s] # NoConn /\ request_queue[s] # <<>>) => (rp_req_cnt[s] >= 1)

\* C34: no handler of the Connection Manager touches a connection or a
\* session after it has been closed or dropped, so the process never
\* faults on freed memory.
C34_NoUseAfterDestruction == ~cm_crashed

\* a session_stop request on a registered session s of connection c whose
\* body names another session id
StopOfOther(c, s, body, stopres, sendres, ub) ==
    /\ ReqSessionStop(c, s, body, stopres, sendres, ub)
    /\ SessionMatches(CmState, s, c)
    /\ s # body

\* the result code cm_session_stop_req_process puts into the response
StopResult(s, body, stopres, sendres, ub) ==
    cm_session_stop_req_process(CmState, s, next_req, body, stopres, sendres, ub).result

\* a step that handles a session_stop request
StopStep == cm_ev'.op = "stop" /\ cm_ev'.req = next_req /\ next_req' = next_req + 1

C35_LockReleased == ~np_lock_leaked

\* a module-change subscribe that returns an error
SubscribeFails(a, id, m, loadrc, ub) ==
    /\ np_notification_subscribe(a, id, "module_change", m, loadrc, ub)
    /\ pm_save_subscribtion_state(persist[m], a, id, TRUE, loadrc).rc # "OK"

\* C37: a subscribe that returns an error leaves the transient table and
\* the destination-info index as they were.
C37_FailedSubscribeNoEffect ==
    [][\A a \in Addr, id \in DstIds, m \in Modules, loadrc \in LoadRcs, ub \in Ubs :
          SubscribeFails(a, id, m, loadrc, ub)
             => /\ np_subscriptions' = np_subscriptions
                /\ np_dst_info' = np_dst_info]_vars

\* the transient subscriptions of this kind, address and id
Addressed(ev, a, id) ==
    {i \in 1..Len(np_subscriptions) : np_subscriptions[i] = [ev |-> ev, addr |-> a, id |-> id]}

\* C39: an unsubscribe of a transient subscription removes one subscription
\* of the kind, address and id it names and nothing when there is none; an
\* unsubscribe of a module-change subscription leaves the transient table
\* and the files of the other modules alone.
C39_UnsubscribeExact ==
    [][\A id \in DstIds, ev \in AllEvents, m \in Modules \cup {NoModule},
          loadrc \in LoadRcs, ub \in Ubs :
          np_notification_unsubscribe(Subscriber, id, ev, m, loadrc, ub)
             => IF ev = "module_change"
                THEN /\ np_subscriptions' = np_subscriptions
                     /\ \A m2 \in Modules \ {m} : persist'[m2] = persist[m2]
                     /\ \A i \in 1..Len(persist'[m].subs) :
                           persist'[m].subs[i] \in Range(persist[m].subs)
                     /\ \A x \in Range(persist[m].subs) :
                           (x \notin Range(persist'[m].subs)) => (x = [addr |-> Subscriber, id |-> id])
                ELSE IF Addressed(ev, Subscriber, id) = {}
                     THEN np_subscriptions' = np_subscriptions
                     ELSE \E i \in Addressed(ev, Subscriber, id) :
                             np_subscriptions' = RemoveAt(np_subscriptions, i)]_vars

(* ------------------------------------------------------------------ *)
(* Notification Processor: concurrent calls                            *)
(* ------------------------------------------------------------------ *)
\* a call of thread t that has returned
Returned(t, op) == NcOf(t).pc = "idle" /\ NcOf(t).call.op = op /\ NcOf(t).rc = "OK"

\* C38: concurrent calls leave what some sequential order of them leaves:
\* no module is listed twice in an entry of the destination-info index, a
\* module whose insert has returned is listed, and an unsubscribe has
\* removed a subscription of the address and id it named.
C38_CallsAtomic ==
    /\ \A a \in Addr : \A i, j \in 1..Len(np_dst_info[a]) :
          (np_dst_info[a][i] = np_dst_info[a][j]) => (i = j)
    /\ \A t \in NpThreads :
          Returned(t, "insert") => (NcOf(t).call.mod \in Range(np_dst_info[NcOf(t).call.addr]))
    /\ \A t \in NpThreads :
          Returned(t, "unsubscribe")
             => (NcOf(t).removed.addr = NcOf(t).call.addr /\ NcOf(t).removed.id = NcOf(t).call.id)

====
